---- MODULE Spec2Model ----
(***************************************************************************)
(* Model of two parts of the vitess control plane:                         *)
(*   go/vt/mysqlctl/proto/permissions.go  (permission snapshots and their  *)
(*                                         sorted-merge diff)              *)
(*   go/vt/zktopo/serving_graph.go        (serving graph records kept in a *)
(*                                         ZooKeeper-like hierarchy)       *)
(*                                                                         *)
(* Go strings that the code compares with < or > (primary keys, privilege  *)
(* names) are sequences of byte codes; Str turns them into text when the   *)
(* code formats them into a message.  Everything the code only compares    *)
(* for equality or concatenates is a TLA+ string.                          *)
(***************************************************************************)
EXTENDS Integers, Sequences, FiniteSets, TLC

VARIABLES
    left,       \* the left *Permissions handed to DiffPermissions(ToArray)
    right,      \* the right *Permissions
    dpc,        \* position of the permissions caller: "ready", "diffed", "listed"
    er,         \* errors held by the caller's ErrorRecorder (DiffPermissions)
    result,     \* value returned by DiffPermissionsToArray (Nil or a sequence)
    nodes,      \* the coordination service: path -> stored value, or Absent
    calls,      \* per client: the store call in progress or just returned
    hist,       \* completed store calls of the sequential client, oldest first
    faults,     \* transport failures injected so far
    ctx,        \* per client: has the context of its calls been cancelled
    loop,       \* a diffPermissions call in progress: its arguments and locals
    ctor        \* a New*Permission call: its arguments and what it returned

diffVars  == <<left, right, dpc, er, result, loop, ctor>>
storeVars == <<nodes, calls, hist, faults, ctx>>
vars      == <<left, right, dpc, er, result, nodes, calls, hist, faults,
               ctx, loop, ctor>>

Nil == "nil"

(***************************************************************************)
(* Bounds of the model.                                                    *)
(***************************************************************************)
\* entries per snapshot, all three kinds together
MaxEntries == 2
\* store calls issued by the sequential client
MaxCalls == 3
\* store calls issued by the client of a store that other tools wrote to
MaxEnvCalls == 2
\* store calls issued by each of the concurrent clients
MaxRaceCalls == 1
\* store calls issued by the client of a store of two cells
MaxCellCalls == 2
\* store calls issued by the client whose context may be cancelled
MaxCtxCalls == 2
\* fields of the row handed to NewUserPermission and its like
MaxFields == 2
\* transport failures the coordination service may produce in one behaviour
MaxFaults == 1

(***************************************************************************)
(* Byte strings.                                                           *)
(***************************************************************************)
\* text of one byte; the alphabet of the modelled inputs
Chr(c) ==
    CASE c = 58 -> ":"
      [] c = 68 -> "D"
      [] c = 73 -> "I"
      [] c = 78 -> "N"
      [] c = 83 -> "S"
      [] c = 89 -> "Y"
      [] c = 97 -> "a"
      [] c = 98 -> "b"
      [] c = 100 -> "d"

RECURSIVE Str(_)
Str(s) == IF s = <<>> THEN "" ELSE Chr(Head(s)) \o Str(Tail(s))

\* Go's s < t on strings: bytewise lexicographic order
RECURSIVE StrLess(_, _)
StrLess(s, t) ==
    IF t = <<>> THEN FALSE
    ELSE IF s = <<>> THEN TRUE
    ELSE IF Head(s) # Head(t) THEN Head(s) < Head(t)
    ELSE StrLess(Tail(s), Tail(t))

\* fmt's %v of an unsigned integer: decimal digits
Digit(d) ==
    CASE d = 0 -> "0" [] d = 1 -> "1" [] d = 2 -> "2" [] d = 3 -> "3"
      [] d = 4 -> "4" [] d = 5 -> "5" [] d = 6 -> "6" [] d = 7 -> "7"
      [] d = 8 -> "8" [] d = 9 -> "9"

RECURSIVE FormatUint(_)
FormatUint(n) == IF n < 10 THEN Digit(n) ELSE FormatUint(n \div 10) \o Digit(n % 10)

\* sort.Strings on the keys of a map: the keys in ascending order
RECURSIVE SortKeys(_)
SortKeys(S) ==
    IF S = {} THEN <<>>
    ELSE LET m == CHOOSE x \in S : \A y \in S \ {x} : StrLess(x, y)
         IN <<m>> \o SortKeys(S \ {m})

(***************************************************************************)
(* permissions.go: rendering of entries.                                   *)
(***************************************************************************)
RECURSIVE printPrivilegesFrom(_, _)
printPrivilegesFrom(priv, si) ==
    IF si = <<>> THEN ""
    ELSE " " \o Str(Head(si)) \o "(" \o Str(priv[Head(si)]) \o ")"
         \o printPrivilegesFrom(priv, Tail(si))

printPrivileges(priv) == printPrivilegesFrom(priv, SortKeys(DOMAIN priv))

UserPermissionPrimaryKey(up) == up.Host \o <<58>> \o up.User

UserPermissionString(up) ==
    LET passwd == IF up.PasswordChecksum = 0 THEN "NoPassword"
                  ELSE "PasswordChecksum(" \o FormatUint(up.PasswordChecksum) \o ")"
    IN "UserPermission " \o passwd \o printPrivileges(up.Privileges)

DbPermissionPrimaryKey(dp) == dp.Host \o <<58>> \o dp.Db \o <<58>> \o dp.User

DbPermissionString(dp) == "DbPermission" \o printPrivileges(dp.Privileges)

HostPermissionPrimaryKey(hp) == hp.Host \o <<58>> \o hp.Db

HostPermissionString(hp) == "HostPermission" \o printPrivileges(hp.Privileges)

\* the three permissionList implementations: a list is [kind, items]
userPermissionList(items) == [kind |-> "user", items |-> items]
dbPermissionList(items)   == [kind |-> "db", items |-> items]
hostPermissionList(items) == [kind |-> "host", items |-> items]

\* permissionList.Get(i), i counted from 0 as in the code
Get(pl, i) ==
    LET e == pl.items[i + 1]
    IN CASE pl.kind = "user" ->
              [pk |-> UserPermissionPrimaryKey(e), val |-> UserPermissionString(e)]
         [] pl.kind = "db" ->
              [pk |-> DbPermissionPrimaryKey(e), val |-> DbPermissionString(e)]
         [] pl.kind = "host" ->
              [pk |-> HostPermissionPrimaryKey(e), val |-> HostPermissionString(e)]

PLen(pl) == Len(pl.items)

(***************************************************************************)
(* concurrency.AllErrorRecorder, as far as DiffPermissionsToArray uses it. *)
(* An error is its message.                                                *)
(***************************************************************************)
RecordError(rec, err) == Append(rec, err)
HasErrors(rec) == Len(rec) > 0
ErrorStrings(rec) == rec

(***************************************************************************)
(* permissions.go: diffPermissions.                                        *)
(***************************************************************************)
\* fmt.Errorf("%v has an extra %v %v", side, name, pk)
ExtraError(side, name, pk) == side \o " has an extra " \o name \o " " \o Str(pk)

\* fmt.Errorf("%v and %v disagree on %v %v:\n%v\n differs from:\n%v", ...)
DisagreeError(leftName, rightName, name, pk, lval, rval) ==
    leftName \o " and " \o rightName \o " disagree on " \o name \o " " \o Str(pk)
    \o ":\n" \o lval \o "\n differs from:\n" \o rval

\* the cursors and the recorder at the start of diffPermissions
diffStart(rec) == [leftIndex |-> 0, rightIndex |-> 0, er |-> rec, iters |-> 0]

\* diffCompare with a slip: on equal keys the left entry is taken for an extra
diffCompareLeftFirst(name, leftName, lft, rightName, rgt, s) ==
    LET l == Get(lft, s.leftIndex)
        r == Get(rgt, s.rightIndex)
    IN IF ~StrLess(r.pk, l.pk)
       THEN [s EXCEPT !.er = RecordError(@, ExtraError(leftName, name, l.pk)),
                      !.leftIndex = @ + 1, !.iters = @ + 1]
       ELSE [s EXCEPT !.er = RecordError(@, ExtraError(rightName, name, r.pk)),
                      !.rightIndex = @ + 1, !.iters = @ + 1]

\* diffCompare with a slip: on equal keys and equal content no cursor advances
diffCompareStuck(name, leftName, lft, rightName, rgt, s) ==
    LET l == Get(lft, s.leftIndex)
        r == Get(rgt, s.rightIndex)
    IN IF StrLess(l.pk, r.pk)
       THEN [s EXCEPT !.er = RecordError(@, ExtraError(leftName, name, l.pk)),
                      !.leftIndex = @ + 1, !.iters = @ + 1]
       ELSE IF StrLess(r.pk, l.pk)
       THEN [s EXCEPT !.er = RecordError(@, ExtraError(rightName, name, r.pk)),
                      !.rightIndex = @ + 1, !.iters = @ + 1]
       ELSE IF l.val # r.val
       THEN [s EXCEPT !.er = RecordError(@, DisagreeError(leftName, rightName,
                                                         name, l.pk, l.val, r.val)),
                      !.leftIndex = @ + 1, !.rightIndex = @ + 1, !.iters = @ + 1]
       ELSE [s EXCEPT !.iters = @ + 1]

\* diffCompare with a slip: on equal keys only the left cursor advances
diffCompareKeepRight(name, leftName, lft, rightName, rgt, s) ==
    LET l == Get(lft, s.leftIndex)
        r == Get(rgt, s.rightIndex)
    IN IF StrLess(l.pk, r.pk)
       THEN [s EXCEPT !.er = RecordError(@, ExtraError(leftName, name, l.pk)),
                      !.leftIndex = @ + 1, !.iters = @ + 1]
       ELSE IF StrLess(r.pk, l.pk)
       THEN [s EXCEPT !.er = RecordError(@, ExtraError(rightName, name, r.pk)),
                      !.rightIndex = @ + 1, !.iters = @ + 1]
       ELSE [s EXCEPT !.er = IF l.val # r.val
                             THEN RecordError(@, DisagreeError(leftName, rightName,
                                                              name, l.pk, l.val, r.val))
                             ELSE @,
                      !.leftIndex = @ + 1, !.iters = @ + 1]

\* diffCompare with a slip: the two renderings are passed in the wrong order
diffCompareSwapped(name, leftName, lft, rightName, rgt, s) ==
    LET l == Get(lft, s.leftIndex)
        r == Get(rgt, s.rightIndex)
    IN IF StrLess(l.pk, r.pk)
       THEN [s EXCEPT !.er = RecordError(@, ExtraError(leftName, name, l.pk)),
                      !.leftIndex = @ + 1, !.iters = @ + 1]
       ELSE IF StrLess(r.pk, l.pk)
       THEN [s EXCEPT !.er = RecordError(@, ExtraError(rightName, name, r.pk)),
                      !.rightIndex = @ + 1, !.iters = @ + 1]
       ELSE [s EXCEPT !.er = IF l.val # r.val
                             THEN RecordError(@, DisagreeError(leftName, rightName,
                                                              name, l.pk, r.val, l.val))
                             ELSE @,
                      !.leftIndex = @ + 1, !.rightIndex = @ + 1, !.iters = @ + 1]

\* one iteration of the first loop: compare the entries under the two cursors
diffCompare(name, leftName, lft, rightName, rgt, s) ==
    LET l == Get(lft, s.leftIndex)
        r == Get(rgt, s.rightIndex)
    IN IF StrLess(l.pk, r.pk)
       THEN [s EXCEPT !.er = RecordError(@, ExtraError(leftName, name, l.pk)),
                      !.leftIndex = @ + 1, !.iters = @ + 1]
       ELSE IF StrLess(r.pk, l.pk)
       THEN [s EXCEPT !.er = RecordError(@, ExtraError(rightName, name, r.pk)),
                      !.rightIndex = @ + 1, !.iters = @ + 1]
       ELSE [s EXCEPT !.er = IF l.val # r.val
                             THEN RecordError(@, DisagreeError(leftName, rightName,
                                                              name, l.pk, l.val, r.val))
                             ELSE @,
                      !.leftIndex = @ + 1, !.rightIndex = @ + 1, !.iters = @ + 1]

\* diffDrainLeft with a slip: after one record the rest of the list is dropped
diffDrainLeftOnce(name, leftName, lft, s) ==
    [s EXCEPT !.er = RecordError(@, ExtraError(leftName, name, Get(lft, s.leftIndex).pk)),
              !.leftIndex = PLen(lft), !.iters = @ + 1]

\* one iteration of the loop that drains the left list
diffDrainLeft(name, leftName, lft, s) ==
    [s EXCEPT !.er = RecordError(@, ExtraError(leftName, name, Get(lft, s.leftIndex).pk)),
              !.leftIndex = @ + 1, !.iters = @ + 1]

\* diffDrainRight with a slip: the entry is skipped without a record
diffDrainRightSilent(name, rightName, rgt, s) ==
    [s EXCEPT !.rightIndex = @ + 1, !.iters = @ + 1]

\* one iteration of the loop that drains the right list
diffDrainRight(name, rightName, rgt, s) ==
    [s EXCEPT !.er = RecordError(@, ExtraError(rightName, name, Get(rgt, s.rightIndex).pk)),
              !.rightIndex = @ + 1, !.iters = @ + 1]

\* the three loops in sequence, from cursor state s to the state at return
RECURSIVE diffLoops(_, _, _, _, _, _)
diffLoops(name, leftName, lft, rightName, rgt, s) ==
    IF s.leftIndex < PLen(lft) /\ s.rightIndex < PLen(rgt)
    THEN diffLoops(name, leftName, lft, rightName, rgt,
                   diffCompare(name, leftName, lft, rightName, rgt, s))
    ELSE IF s.leftIndex < PLen(lft)
    THEN diffLoops(name, leftName, lft, rightName, rgt,
                   diffDrainLeft(name, leftName, lft, s))
    ELSE IF s.rightIndex < PLen(rgt)
    THEN diffLoops(name, leftName, lft, rightName, rgt,
                   diffDrainRight(name, rightName, rgt, s))
    ELSE s

\* diffPermissions: the recorder after the call
diffPermissions(name, leftName, lft, rightName, rgt, rec) ==
    diffLoops(name, leftName, lft, rightName, rgt, diffStart(rec)).er

\* DiffPermissions with a slip: db is diffed before user
DiffPermissionsDbFirst(leftName, lft, rightName, rgt, rec) ==
    LET e1 == diffPermissions("db", leftName, dbPermissionList(lft.DbPermissions),
                              rightName, dbPermissionList(rgt.DbPermissions), rec)
        e2 == diffPermissions("user", leftName, userPermissionList(lft.UserPermissions),
                              rightName, userPermissionList(rgt.UserPermissions), e1)
    IN diffPermissions("host", leftName, hostPermissionList(lft.HostPermissions),
                       rightName, hostPermissionList(rgt.HostPermissions), e2)

\* DiffPermissions: user, then db, then host, into the same recorder
DiffPermissions(leftName, lft, rightName, rgt, rec) ==
    LET e1 == diffPermissions("user", leftName, userPermissionList(lft.UserPermissions),
                              rightName, userPermissionList(rgt.UserPermissions), rec)
        e2 == diffPermissions("db", leftName, dbPermissionList(lft.DbPermissions),
                              rightName, dbPermissionList(rgt.DbPermissions), e1)
    IN diffPermissions("host", leftName, hostPermissionList(lft.HostPermissions),
                       rightName, hostPermissionList(rgt.HostPermissions), e2)

\* DiffPermissionsToArray with a slip: the strings are returned also when
\* there are none
DiffPermissionsToArrayNoNil(leftName, lft, rightName, rgt) ==
    ErrorStrings(DiffPermissions(leftName, lft, rightName, rgt, <<>>))

\* DiffPermissionsToArray: a private recorder; nil when it holds nothing
DiffPermissionsToArray(leftName, lft, rightName, rgt) ==
    LET rec == DiffPermissions(leftName, lft, rightName, rgt, <<>>)
    IN IF HasErrors(rec) THEN ErrorStrings(rec) ELSE Nil

(***************************************************************************)
(* Inputs of the permission diff.                                          *)
(***************************************************************************)
NoPriv == <<>>
PrivSY == (<<83>> :> <<89>>)
PrivSN == (<<83>> :> <<78>>)
PrivSI == (<<83>> :> <<89>>) @@ (<<73>> :> <<78>>)

UserEntries ==
    { [Host |-> <<97>>, User |-> <<97>>, PasswordChecksum |-> 0, Privileges |-> NoPriv],
      [Host |-> <<97>>, User |-> <<97>>, PasswordChecksum |-> 5, Privileges |-> PrivSY],
      [Host |-> <<98>>, User |-> <<97>>, PasswordChecksum |-> 0, Privileges |-> PrivSI] }

DbEntries ==
    { [Host |-> <<97>>, Db |-> <<100>>, User |-> <<97>>, Privileges |-> PrivSY],
      [Host |-> <<97>>, Db |-> <<100>>, User |-> <<97>>, Privileges |-> PrivSN],
      [Host |-> <<98>>, Db |-> <<100>>, User |-> <<97>>, Privileges |-> NoPriv] }

HostEntries ==
    { [Host |-> <<97>>, Db |-> <<100>>, Privileges |-> PrivSY],
      [Host |-> <<98>>, Db |-> <<100>>, Privileges |-> PrivSI] }

SeqsUpTo(S, n) == UNION { [1..k -> S] : k \in 0..n }

\* *tabletmanagerdatapb.Permissions values with at most MaxEntries entries
Snapshots ==
    { p \in [UserPermissions : SeqsUpTo(UserEntries, MaxEntries),
             DbPermissions : SeqsUpTo(DbEntries, MaxEntries),
             HostPermissions : SeqsUpTo(HostEntries, MaxEntries)] :
        Len(p.UserPermissions) + Len(p.DbPermissions) + Len(p.HostPermissions)
            <= MaxEntries }

LeftName == "Left"
RightName == "Right"

\* no diffPermissions call is in progress
IdleLoop == [pc |-> "idle"]

\* no New*Permission call was made
IdleCtor == [pc |-> "idle"]

\* the permission variables of a behaviour that only uses the store
IdleDiff ==
    /\ loop = IdleLoop
    /\ ctor = IdleCtor
    /\ left = [UserPermissions |-> <<>>, DbPermissions |-> <<>>, HostPermissions |-> <<>>]
    /\ right = left
    /\ dpc = "ready"
    /\ er = <<>>
    /\ result = Nil

\* the caller runs DiffPermissions with its own recorder
CallDiffPermissions ==
    /\ dpc = "ready"
    /\ er' = DiffPermissions(LeftName, left, RightName, right, er)
    /\ dpc' = "diffed"
    /\ UNCHANGED <<left, right, result, loop, ctor>>
    /\ UNCHANGED storeVars

\* the caller runs DiffPermissionsToArray
CallDiffPermissionsToArray ==
    /\ dpc \in {"ready", "diffed"}
    /\ result' = DiffPermissionsToArray(LeftName, left, RightName, right)
    /\ dpc' = "listed"
    /\ UNCHANGED <<left, right, er, loop, ctor>>
    /\ UNCHANGED storeVars


(***************************************************************************)
(* permissions.go: construction of entries from a row.  A field is         *)
(* [Name |-> bytes]; a sqltypes.Value is <<>> (NULL) or <<bytes>>.  A uint64 *)
(* that TLC's integers cannot hold is its 64 bits, least significant first. *)
(***************************************************************************)
FieldHost == <<72, 111, 115, 116>>
FieldUser == <<85, 115, 101, 114>>
FieldDb == <<68, 98>>
FieldPassword == <<80, 97, 115, 115, 119, 111, 114, 100>>

\* sqltypes.Value.String(): the raw bytes, empty for NULL
ValueString(v) == IF v = <<>> THEN <<>> ELSE v[1]

Uint64Zero == [i \in 1..64 |-> 0]
Not64(c) == [i \in 1..64 |-> 1 - c[i]]
Xor64(a, b) == [i \in 1..64 |-> (a[i] + b[i]) % 2]
ShiftRight1(c) == [i \in 1..64 |-> IF i < 64 THEN c[i + 1] ELSE 0]
Uint64OfByte(v) == [i \in 1..64 |-> IF i <= 8 THEN (v \div (2 ^ (i - 1))) % 2 ELSE 0]

\* crc64.ISO, the polynomial 0xD800000000000000 of hashTable
hashTable == [i \in 1..64 |-> IF i \in {60, 61, 63, 64} THEN 1 ELSE 0]

\* the table entry for the low byte, a bit at a time
RECURSIVE crc64Bits(_, _)
crc64Bits(crc, n) ==
    IF n = 0 THEN crc
    ELSE crc64Bits(IF crc[1] = 1 THEN Xor64(ShiftRight1(crc), hashTable)
                   ELSE ShiftRight1(crc), n - 1)

RECURSIVE crc64Update(_, _)
crc64Update(crc, p) ==
    IF p = <<>> THEN crc
    ELSE crc64Update(crc64Bits(Xor64(crc, Uint64OfByte(Head(p))), 8), Tail(p))

\* crc64.Checksum(data, hashTable)
crc64Checksum(data) == Not64(crc64Update(Not64(Uint64Zero), data))

\* the switch of NewUserPermission on one field
newUserPermissionField(up, name, value) ==
    CASE name = FieldHost -> [up EXCEPT !.Host = ValueString(value)]
      [] name = FieldUser -> [up EXCEPT !.User = ValueString(value)]
      [] name = FieldPassword ->
           [up EXCEPT !.PasswordChecksum = crc64Checksum(ValueString(value))]
      [] OTHER -> [up EXCEPT !.Privileges = (name :> ValueString(value)) @@ @]

\* newDbPermissionField with a slip: the case "Db" is missing
newDbPermissionFieldNoDb(up, name, value) ==
    CASE name = FieldHost -> [up EXCEPT !.Host = ValueString(value)]
      [] name = FieldUser -> [up EXCEPT !.User = ValueString(value)]
      [] OTHER -> [up EXCEPT !.Privileges = (name :> ValueString(value)) @@ @]

\* the switch of NewDbPermission on one field
newDbPermissionField(up, name, value) ==
    CASE name = FieldHost -> [up EXCEPT !.Host = ValueString(value)]
      [] name = FieldDb -> [up EXCEPT !.Db = ValueString(value)]
      [] name = FieldUser -> [up EXCEPT !.User = ValueString(value)]
      [] OTHER -> [up EXCEPT !.Privileges = (name :> ValueString(value)) @@ @]

\* the switch of NewHostPermission on one field
newHostPermissionField(hp, name, value) ==
    CASE name = FieldHost -> [hp EXCEPT !.Host = ValueString(value)]
      [] name = FieldDb -> [hp EXCEPT !.Db = ValueString(value)]
      [] OTHER -> [hp EXCEPT !.Privileges = (name :> ValueString(value)) @@ @]

\* for i, field := range fields, from field i on
RECURSIVE newUserPermissionFrom(_, _, _, _)
newUserPermissionFrom(up, fields, values, i) ==
    IF i > Len(fields) THEN up
    ELSE newUserPermissionFrom(newUserPermissionField(up, fields[i].Name, values[i]),
                               fields, values, i + 1)

RECURSIVE newDbPermissionFrom(_, _, _, _)
newDbPermissionFrom(up, fields, values, i) ==
    IF i > Len(fields) THEN up
    ELSE newDbPermissionFrom(newDbPermissionField(up, fields[i].Name, values[i]),
                             fields, values, i + 1)

RECURSIVE newHostPermissionFrom(_, _, _, _)
newHostPermissionFrom(hp, fields, values, i) ==
    IF i > Len(fields) THEN hp
    ELSE newHostPermissionFrom(newHostPermissionField(hp, fields[i].Name, values[i]),
                               fields, values, i + 1)

NewUserPermission(fields, values) ==
    newUserPermissionFrom([Host |-> <<>>, User |-> <<>>, PasswordChecksum |-> Uint64Zero,
                           Privileges |-> <<>>], fields, values, 1)

NewDbPermission(fields, values) ==
    newDbPermissionFrom([Host |-> <<>>, Db |-> <<>>, User |-> <<>>, Privileges |-> <<>>],
                        fields, values, 1)

NewHostPermission(fields, values) ==
    newHostPermissionFrom([Host |-> <<>>, Db |-> <<>>, Privileges |-> <<>>],
                          fields, values, 1)

\* the caller builds an entry of one kind from the row it holds
CallNewUserPermission ==
    /\ ctor.pc = "ready"
    /\ ctor' = [ctor EXCEPT !.pc = "built", !.kind = "user",
                            !.entry = NewUserPermission(ctor.fields, ctor.values)]
    /\ UNCHANGED <<left, right, dpc, er, result, loop>>
    /\ UNCHANGED storeVars

CallNewDbPermission ==
    /\ ctor.pc = "ready"
    /\ ctor' = [ctor EXCEPT !.pc = "built", !.kind = "db",
                            !.entry = NewDbPermission(ctor.fields, ctor.values)]
    /\ UNCHANGED <<left, right, dpc, er, result, loop>>
    /\ UNCHANGED storeVars

CallNewHostPermission ==
    /\ ctor.pc = "ready"
    /\ ctor' = [ctor EXCEPT !.pc = "built", !.kind = "host",
                            !.entry = NewHostPermission(ctor.fields, ctor.values)]
    /\ UNCHANGED <<left, right, dpc, er, result, loop>>
    /\ UNCHANGED storeVars


(***************************************************************************)
(* diffPermissions, one loop iteration at a time.  loop holds the call's   *)
(* arguments and its locals s; pc is the loop the call is in: "main" (both  *)
(* cursors in range), "left", "right" (the drains) or "done".              *)
(***************************************************************************)
\* the two lists of one kind, wrapped as DiffPermissions wraps them
WrapList(p, kind) ==
    CASE kind = "user" -> userPermissionList(p.UserPermissions)
      [] kind = "db" -> dbPermissionList(p.DbPermissions)
      [] kind = "host" -> hostPermissionList(p.HostPermissions)

LoopCall(kind) ==
    /\ loop.pc = "idle"
    /\ loop' = [pc |-> "main", name |-> kind,
                lft |-> WrapList(left, kind), rgt |-> WrapList(right, kind),
                s |-> diffStart(<<>>)]
    /\ UNCHANGED <<left, right, dpc, er, result, ctor>>
    /\ UNCHANGED storeVars

\* for leftIndex < left.Len() && rightIndex < right.Len()
LoopCompare ==
    /\ loop.pc = "main"
    /\ IF loop.s.leftIndex < PLen(loop.lft) /\ loop.s.rightIndex < PLen(loop.rgt)
       THEN loop' = [loop EXCEPT !.s = diffCompare(loop.name, LeftName, loop.lft,
                                                  RightName, loop.rgt, loop.s)]
       ELSE loop' = [loop EXCEPT !.pc = "left"]
    /\ UNCHANGED <<left, right, dpc, er, result, ctor>>
    /\ UNCHANGED storeVars

\* for leftIndex < left.Len()
LoopDrainLeft ==
    /\ loop.pc = "left"
    /\ IF loop.s.leftIndex < PLen(loop.lft)
       THEN loop' = [loop EXCEPT !.s = diffDrainLeft(loop.name, LeftName, loop.lft, loop.s)]
       ELSE loop' = [loop EXCEPT !.pc = "right"]
    /\ UNCHANGED <<left, right, dpc, er, result, ctor>>
    /\ UNCHANGED storeVars

\* for rightIndex < right.Len(), then the return
LoopDrainRight ==
    /\ loop.pc = "right"
    /\ IF loop.s.rightIndex < PLen(loop.rgt)
       THEN loop' = [loop EXCEPT !.s = diffDrainRight(loop.name, RightName, loop.rgt, loop.s)]
       ELSE loop' = [loop EXCEPT !.pc = "done"]
    /\ UNCHANGED <<left, right, dpc, er, result, ctor>>
    /\ UNCHANGED storeVars


(***************************************************************************)
(* The coordination service behind zk.Conn: a tree of nodes, each holding  *)
(* a string.  nodes maps the paths that exist to their values; the root    *)
(* <<>> always exists.  Every operation is one round trip and is atomic.   *)
(* A path is the sequence of its components: "/zk/test/vt" is              *)
(* <<"zk", "test", "vt">>.                                                 *)
(***************************************************************************)
ZkErrNoNode == "zk: node does not exist"
ZkErrNodeExists == "zk: node already exists"
ZkErrNotEmpty == "zk: node has children"
ZkErrConnectionClosed == "zk: connection closed"

Dir(path) == SubSeq(path, 1, Len(path) - 1)

\* a path and every path above it, the root included
Prefixes(path) == { SubSeq(path, 1, i) : i \in 0..Len(path) }

ChildrenOf(n, path) ==
    { q[Len(q)] : q \in { r \in DOMAIN n : Len(r) = Len(path) + 1 /\ Dir(r) = path } }

zkGet(n, path) ==
    IF path \in DOMAIN n THEN [err |-> Nil, data |-> n[path]]
    ELSE [err |-> ZkErrNoNode, data |-> ""]

zkSet(n, path, data) ==
    IF path \in DOMAIN n THEN [err |-> Nil, nodes |-> [n EXCEPT ![path] = data]]
    ELSE [err |-> ZkErrNoNode, nodes |-> n]

zkCreate(n, path, data) ==
    IF path \in DOMAIN n THEN [err |-> ZkErrNodeExists, nodes |-> n]
    ELSE IF Dir(path) \notin DOMAIN n THEN [err |-> ZkErrNoNode, nodes |-> n]
    ELSE [err |-> Nil, nodes |-> (path :> data) @@ n]

zkDelete(n, path) ==
    IF path \notin DOMAIN n THEN [err |-> ZkErrNoNode, nodes |-> n]
    ELSE IF ChildrenOf(n, path) # {} THEN [err |-> ZkErrNotEmpty, nodes |-> n]
    ELSE [err |-> Nil, nodes |-> [q \in DOMAIN n \ {path} |-> n[q]]]

\* the orders in which the service may list a set of children
Orders(S) == { f \in [1..Cardinality(S) -> S] : \A i, j \in DOMAIN f : i # j => f[i] # f[j] }

\* what a round trip may fail with before reaching the service
FaultChoices(allowed) ==
    IF allowed /\ faults < MaxFaults THEN {Nil, ZkErrConnectionClosed} ELSE {Nil}

(***************************************************************************)
(* zktopo: errors and paths.                                               *)
(***************************************************************************)
TopoErrNoNode == "node doesn't exist"
TopoErrNodeExists == "node already exists"
TopoErrNotEmpty == "node not empty"

\* zktopo.convertError: service errors to topo errors, others unchanged
convertError(err) ==
    CASE err = ZkErrNoNode -> TopoErrNoNode
      [] err = ZkErrNodeExists -> TopoErrNodeExists
      [] err = ZkErrNotEmpty -> TopoErrNotEmpty
      [] OTHER -> err

\* path.Join(dir, elem): an empty element adds nothing
PathJoin(dir, elem) == IF elem = "" THEN dir ELSE Append(dir, elem)

zkPathForCell(cell) == <<"zk", cell, "vt">>
zkPathForSrvKeyspaces(cell) == PathJoin(zkPathForCell(cell), "ns")
\* zkPathForSrvKeyspace with a slip: every keyspace of a cell shares one key
zkPathForSrvKeyspaceShared(cell, keyspace) == PathJoin(zkPathForSrvKeyspaces(cell), "a")

zkPathForSrvKeyspace(cell, keyspace) == PathJoin(zkPathForSrvKeyspaces(cell), keyspace)
zkPathForSrvVSchema(cell) == PathJoin(zkPathForCell(cell), "vschema")

(***************************************************************************)
(* Inputs of the store and their serialized form.                          *)
(***************************************************************************)
Cells == {"test"}
Keyspaces == {"a", "b"}

\* the bytes of a keyspace name, for sort.Strings
Bytes(name) == CASE name = "a" -> <<97>> [] name = "b" -> <<98>>

\* *topodatapb.SrvKeyspace values (non-nil)
SrvKeyspaces == { [ShardingColumnName |-> ""], [ShardingColumnName |-> "id"] }

\* *vschemapb.SrvVSchema values (non-nil): the keyspaces that have an entry
SrvVSchemas == { [Keyspaces |-> {}], [Keyspaces |-> {"a"}] }

\* json.MarshalIndent(srvKeyspace, "", "  "); fields are omitted when empty
MarshalSrvKeyspace(d) ==
    IF d.ShardingColumnName = "" THEN "{}"
    ELSE "{\n  \"sharding_column_name\": \"" \o d.ShardingColumnName \o "\"\n}"

\* json.MarshalIndent(srvVSchema, "", "  ")
MarshalSrvVSchema(v) ==
    IF v.Keyspaces = {} THEN "{}"
    ELSE "{\n  \"keyspaces\": {\n    \"a\": {}\n  }\n}"

JsonSyntaxError == "unexpected end of JSON input"

\* json.Unmarshal into an empty SrvKeyspace: "null" leaves it empty
UnmarshalSrvKeyspace(data) ==
    IF data = "null" THEN [err |-> Nil, value |-> <<[ShardingColumnName |-> ""]>>]
    ELSE IF \E d \in SrvKeyspaces : MarshalSrvKeyspace(d) = data
    THEN [err |-> Nil,
          value |-> <<CHOOSE d \in SrvKeyspaces : MarshalSrvKeyspace(d) = data>>]
    ELSE [err |-> JsonSyntaxError, value |-> <<>>]

\* json.Unmarshal into an empty SrvVSchema
UnmarshalSrvVSchema(data) ==
    IF data = "null" THEN [err |-> Nil, value |-> <<[Keyspaces |-> {}]>>]
    ELSE IF \E v \in SrvVSchemas : MarshalSrvVSchema(v) = data
    THEN [err |-> Nil,
          value |-> <<CHOOSE v \in SrvVSchemas : MarshalSrvVSchema(v) = data>>]
    ELSE [err |-> JsonSyntaxError, value |-> <<>>]

\* values another tool may have left in the service: empty, truncated, null
RawValues == {"", "{", "null"}


(***************************************************************************)
(* Store calls.  calls[c] is the call client c has in progress or has just *)
(* returned from; a call that needs a second round trip keeps its position *)
(* in pc, cur and stack; trips lists the round trips it has made.  Pointers *)
(* are <<>> (nil) or <<value>>.                                            *)
(***************************************************************************)
Clients == {"c1", "c2"}

IdleCall ==
    [op |-> "none", cell |-> "", keyspace |-> "", arg |-> <<>>, path |-> <<>>,
     data |-> "", pc |-> "idle", cur |-> <<>>, stack |-> <<>>, trips |-> <<>>,
     err |-> Nil, value |-> <<>>]

\* a call that has made its first round trip
NewCall(op, cell, keyspace, arg, path, data, trip) ==
    [IdleCall EXCEPT !.op = op, !.cell = cell, !.keyspace = keyspace, !.arg = arg,
                     !.path = path, !.data = data, !.trips = <<trip>>]

\* calls client c has issued so far
Issued(c) ==
    Cardinality({ i \in DOMAIN hist : hist[i].client = c })
    + (IF calls[c].pc \in {"create1", "create2"} THEN 1 ELSE 0)

CanStart(c, limit) == calls[c].pc \in {"idle", "done"} /\ Issued(c) < limit

\* a round trip that fails in transport (timeout, disconnect) was lost on its
\* way to the service or was served and its reply lost: the caller cannot tell
Delivered(f) == IF f = Nil THEN {TRUE} ELSE {TRUE, FALSE}

\* what a write round trip returns and leaves in the service
WriteTrip(f, sent, res) ==
    IF f = Nil THEN res
    ELSE [err |-> f, nodes |-> IF sent THEN res.nodes ELSE nodes]

\* what a read round trip returns; the service is left as it was either way
ReadTrip(f, res) == IF f # Nil THEN [err |-> f, data |-> ""] ELSE res

CountFault(f) == faults' = IF f # Nil THEN faults + 1 ELSE faults

\* the service is left as the write round trip r left it
Applied(r) == nodes' = r.nodes

\* the call of client c returns (value, err)
Return(c, call, value, err) ==
    LET done == [call EXCEPT !.pc = "done", !.cur = <<>>, !.stack = <<>>,
                             !.err = err, !.value = value]
    IN /\ calls' = [calls EXCEPT ![c] = done]
       /\ hist' = Append(hist, [client |-> c, op |-> done.op, cell |-> done.cell,
                                keyspace |-> done.keyspace, arg |-> done.arg,
                                err |-> err, value |-> value])

\* updateNeedsCreate with a slip: the fallback is taken after any failed Set
updateCreatesOnAnyError(err) == err # Nil

\* updateNeedsCreate with a slip: the fallback is never taken
updateNeverCreates(err) == FALSE

\* UpdateSrvKeyspace / UpdateSrvVSchema: create only when Set found no node
updateNeedsCreate(err) == err = ZkErrNoNode

\* updateReturn with a slip: a lost create race is taken for success
updateReturnIgnoresExists(err) == IF err = ZkErrNodeExists THEN Nil ELSE convertError(err)

\* updateReturn with a slip: the error of the last round trip is dropped
updateReturnsNil(err) == Nil

\* UpdateSrvKeyspace / UpdateSrvVSchema: what the caller gets
updateReturn(err) == convertError(err)

\* after the Set round trip of an update
AfterSet(c, call, r) ==
    /\ Applied(r)
    /\ IF updateNeedsCreate(r.err)
       THEN /\ calls' = [calls EXCEPT ![c] = [call EXCEPT !.pc = "create1",
                                                          !.cur = call.path]]
            /\ UNCHANGED hist
       ELSE Return(c, call, <<>>, updateReturn(r.err))

UpdateSrvKeyspace(c, cell, keyspace, srvKeyspace, faulty, limit) ==
    /\ CanStart(c, limit)
    /\ \E f \in FaultChoices(faulty) : \E sent \in Delivered(f) :
         LET path == zkPathForSrvKeyspace(cell, keyspace)
             data == MarshalSrvKeyspace(srvKeyspace)
             call == NewCall("UpdateSrvKeyspace", cell, keyspace, <<srvKeyspace>>,
                             path, data, "Set")
             r == WriteTrip(f, sent, zkSet(nodes, path, data))
         IN AfterSet(c, call, r) /\ CountFault(f)
    /\ UNCHANGED <<diffVars, ctx>>

UpdateSrvVSchema(c, cell, srvVSchema, faulty, limit) ==
    /\ CanStart(c, limit)
    /\ \E f \in FaultChoices(faulty) : \E sent \in Delivered(f) :
         LET path == zkPathForSrvVSchema(cell)
             data == MarshalSrvVSchema(srvVSchema)
             call == NewCall("UpdateSrvVSchema", cell, "", <<srvVSchema>>, path, data,
                             "Set")
             r == WriteTrip(f, sent, zkSet(nodes, path, data))
         IN AfterSet(c, call, r) /\ CountFault(f)
    /\ UNCHANGED <<diffVars, ctx>>

\* zk.CreateRecursive: does the frame go on after its recursive call returned e
createParentOk(e) == e = Nil \/ e = ZkErrNodeExists

\* zk.CreateRecursive, one Create round trip.  pc = "create1" is a frame's
\* first Create of cur, "create2" its Create after the parent was made; stack
\* holds the frames waiting for their recursive call, innermost first.
CreateRecursiveStep(c, faulty) ==
    /\ calls[c].pc \in {"create1", "create2"}
    /\ \E f \in FaultChoices(faulty) : \E sent \in Delivered(f) :
         LET call == [calls[c] EXCEPT !.trips = Append(@, "Create")]
             value == IF call.cur = call.path THEN call.data ELSE ""
             r == WriteTrip(f, sent, zkCreate(nodes, call.cur, value))
         IN /\ Applied(r)
            /\ CountFault(f)
            /\ IF call.pc = "create1" /\ r.err = ZkErrNoNode
               THEN /\ calls' = [calls EXCEPT ![c] =
                                   [call EXCEPT !.stack = <<call.cur>> \o @,
                                                !.cur = Dir(call.cur)]]
                    /\ UNCHANGED hist
               ELSE IF call.stack # <<>> /\ createParentOk(r.err)
               THEN /\ calls' = [calls EXCEPT ![c] =
                                   [call EXCEPT !.pc = "create2",
                                                !.cur = Head(call.stack),
                                                !.stack = Tail(call.stack)]]
                    /\ UNCHANGED hist
               ELSE Return(c, call, <<>>, updateReturn(r.err))
    /\ UNCHANGED <<diffVars, ctx>>

\* deleteReturn with a slip: a key that is already gone counts as deleted
deleteReturnIdempotent(err) ==
    IF err # Nil /\ err # ZkErrNoNode THEN convertError(err) ELSE Nil

\* DeleteSrvKeyspace: what the caller gets after the Delete round trip
deleteReturn(err) == IF err # Nil THEN convertError(err) ELSE Nil

DeleteSrvKeyspace(c, cell, keyspace, faulty, limit) ==
    /\ CanStart(c, limit)
    /\ \E f \in FaultChoices(faulty) : \E sent \in Delivered(f) :
         LET path == zkPathForSrvKeyspace(cell, keyspace)
             call == NewCall("DeleteSrvKeyspace", cell, keyspace, <<>>, path, "", "Delete")
             r == WriteTrip(f, sent, zkDelete(nodes, path))
         IN /\ Applied(r)
            /\ CountFault(f)
            /\ Return(c, call, <<>>, deleteReturn(r.err))
    /\ UNCHANGED <<diffVars, ctx>>

\* getEmpty with a slip: the empty value is not looked for
getEmptyNever(data) == FALSE

\* GetSrvKeyspace / GetSrvVSchema: an empty value counts as no node
getEmpty(data) == Len(data) = 0

\* getSrvKeyspaceResult with a slip: the service's error is returned as it is
getSrvKeyspaceResultRawError(r) ==
    IF r.err # Nil THEN [value |-> <<>>, err |-> r.err]
    ELSE IF getEmpty(r.data) THEN [value |-> <<>>, err |-> TopoErrNoNode]
    ELSE LET u == UnmarshalSrvKeyspace(r.data)
         IN IF u.err # Nil
            THEN [value |-> <<>>,
                  err |-> "SrvKeyspace unmarshal failed: " \o r.data \o " " \o u.err]
            ELSE [value |-> u.value, err |-> Nil]

\* GetSrvKeyspace after the Get round trip returned r
getSrvKeyspaceResult(r) ==
    IF r.err # Nil THEN [value |-> <<>>, err |-> convertError(r.err)]
    ELSE IF getEmpty(r.data) THEN [value |-> <<>>, err |-> TopoErrNoNode]
    ELSE LET u == UnmarshalSrvKeyspace(r.data)
         IN IF u.err # Nil
            THEN [value |-> <<>>,
                  err |-> "SrvKeyspace unmarshal failed: " \o r.data \o " " \o u.err]
            ELSE [value |-> u.value, err |-> Nil]

\* GetSrvVSchema after the Get round trip returned r
getSrvVSchemaResult(r) ==
    IF r.err # Nil THEN [value |-> <<>>, err |-> convertError(r.err)]
    ELSE IF getEmpty(r.data) THEN [value |-> <<>>, err |-> TopoErrNoNode]
    ELSE LET u == UnmarshalSrvVSchema(r.data)
         IN IF u.err # Nil
            THEN [value |-> <<>>,
                  err |-> "SrvVSchema unmarshal failed: " \o r.data \o " " \o u.err]
            ELSE [value |-> u.value, err |-> Nil]

GetSrvKeyspace(c, cell, keyspace, faulty, limit) ==
    /\ CanStart(c, limit)
    /\ \E f \in FaultChoices(faulty) :
         LET path == zkPathForSrvKeyspace(cell, keyspace)
             call == NewCall("GetSrvKeyspace", cell, keyspace, <<>>, path, "", "Get")
             res == getSrvKeyspaceResult(ReadTrip(f, zkGet(nodes, path)))
         IN CountFault(f) /\ Return(c, call, res.value, res.err)
    /\ UNCHANGED nodes
    /\ UNCHANGED <<diffVars, ctx>>

GetSrvVSchema(c, cell, faulty, limit) ==
    /\ CanStart(c, limit)
    /\ \E f \in FaultChoices(faulty) :
         LET path == zkPathForSrvVSchema(cell)
             call == NewCall("GetSrvVSchema", cell, "", <<>>, path, "", "Get")
             res == getSrvVSchemaResult(ReadTrip(f, zkGet(nodes, path)))
         IN CountFault(f) /\ Return(c, call, res.value, res.err)
    /\ UNCHANGED nodes
    /\ UNCHANGED <<diffVars, ctx>>

\* sort.Strings(children): ascending by bytes, by insertion
RECURSIVE sortStringsInsert(_, _)
sortStringsInsert(sorted, x) ==
    IF sorted = <<>> THEN <<x>>
    ELSE IF StrLess(Bytes(x), Bytes(Head(sorted))) THEN <<x>> \o sorted
    ELSE <<Head(sorted)>> \o sortStringsInsert(Tail(sorted), x)

RECURSIVE sortStrings(_)
sortStrings(names) ==
    IF names = <<>> THEN <<>>
    ELSE sortStringsInsert(sortStrings(Tail(names)), Head(names))

\* namesOfChildren with a slip: the children are returned as listed
namesUnsorted(children) == children

\* GetSrvKeyspaceNames: the names it returns for the children listed
namesOfChildren(children) == sortStrings(children)

\* GetSrvKeyspaceNames after the Children round trip
getSrvKeyspaceNamesResult(children, err) ==
    CASE err = Nil -> [value |-> namesOfChildren(children), err |-> Nil]
      [] err = ZkErrNoNode -> [value |-> <<>>, err |-> Nil]
      [] OTHER -> [value |-> <<>>, err |-> convertError(err)]

GetSrvKeyspaceNames(c, cell, faulty, limit) ==
    /\ CanStart(c, limit)
    /\ \E f \in FaultChoices(faulty) :
         LET path == zkPathForSrvKeyspaces(cell)
             call == NewCall("GetSrvKeyspaceNames", cell, "", <<>>, path, "", "Children")
         IN /\ CountFault(f)
            /\ IF f # Nil THEN
                 LET res == getSrvKeyspaceNamesResult(<<>>, f)
                 IN Return(c, call, res.value, res.err)
               ELSE IF path \notin DOMAIN nodes THEN
                 LET res == getSrvKeyspaceNamesResult(<<>>, ZkErrNoNode)
                 IN Return(c, call, res.value, res.err)
               ELSE \E children \in Orders(ChildrenOf(nodes, path)) :
                 LET res == getSrvKeyspaceNamesResult(children, Nil)
                 IN Return(c, call, res.value, res.err)
    /\ UNCHANGED nodes
    /\ UNCHANGED <<diffVars, ctx>>


\* the polling interval of a watch, in seconds; no function of the file reads it
WatchSleepDuration == 30

(***************************************************************************)
(* Initial states.                                                         *)
(***************************************************************************)
\* no client has called the store or cancelled a context
IdleClients ==
    /\ calls = [c \in Clients |-> IdleCall]
    /\ hist = <<>>
    /\ faults = 0
    /\ ctx = [c \in Clients |-> FALSE]

\* any two snapshots, nothing diffed yet; the store is not used
InitDiff ==
    /\ left \in Snapshots
    /\ right \in Snapshots
    /\ dpc = "ready"
    /\ er = <<>>
    /\ result = Nil
    /\ loop = IdleLoop
    /\ ctor = IdleCtor
    /\ nodes = (<<>> :> "")
    /\ IdleClients

\* the namespaces above the keys of cell "test", outermost first
Namespaces == zkPathForSrvKeyspaces("test")

\* the root and the first k namespaces, each holding ""
Tree(k) == [p \in { SubSeq(Namespaces, 1, i) : i \in 0..k } |-> ""]

\* no serving graph record exists; any number of the namespaces above them may
InitStore ==
    /\ \E k \in 0..Len(Namespaces) : nodes = Tree(k)
    /\ IdleClients
    /\ IdleDiff

\* what a key may hold when other tools share the service
Stored(valid) == {<<>>} \cup { <<v>> : v \in RawValues \cup valid }

WithKey(n, path, stored) == IF stored = <<>> THEN n ELSE (path :> stored[1]) @@ n

\* the namespaces exist; keyspace "a" and the schema key were written by anyone
InitEnv ==
    /\ \E k \in Stored({ MarshalSrvKeyspace(d) : d \in SrvKeyspaces }),
          v \in Stored({ MarshalSrvVSchema(d) : d \in SrvVSchemas }) :
         nodes = WithKey(WithKey(Tree(Len(Namespaces)),
                                 zkPathForSrvKeyspace("test", "a"), k),
                         zkPathForSrvVSchema("test"), v)
    /\ IdleClients
    /\ IdleDiff

\* the records of cell "other", written before the client starts: keyspace
\* "a" and the schema routing, under their namespaces
OtherCell ==
    [p \in Prefixes(zkPathForSrvKeyspaces("other")) |-> ""]
    @@ (zkPathForSrvKeyspace("other", "a") :> MarshalSrvKeyspace([ShardingColumnName |-> "id"]))
    @@ (zkPathForSrvVSchema("other") :> MarshalSrvVSchema([Keyspaces |-> {"a"}]))

\* cell "other" holds its records; cell "test" holds none, under any number
\* of its namespaces
InitCells ==
    /\ \E k \in 1..Len(Namespaces) : nodes = Tree(k) @@ OtherCell
    /\ IdleClients
    /\ IdleDiff

(***************************************************************************)
(* Specifications.                                                         *)
(***************************************************************************)
\* SpecDiff: a caller diffs two permission snapshots
NextDiff == CallDiffPermissions \/ CallDiffPermissionsToArray

SpecDiff == InitDiff /\ [][NextDiff]_vars

\* one client issues store calls one after the other, at most limit of them;
\* round trips may fail in transport
SeqUpdateSrvKeyspace(limit) ==
    \E cell \in Cells, keyspace \in Keyspaces, d \in SrvKeyspaces :
        UpdateSrvKeyspace("c1", cell, keyspace, d, TRUE, limit)

SeqUpdateSrvVSchema(limit) ==
    \E cell \in Cells, v \in SrvVSchemas : UpdateSrvVSchema("c1", cell, v, TRUE, limit)

SeqCreateRecursive == CreateRecursiveStep("c1", TRUE)

SeqDeleteSrvKeyspace(limit) ==
    \E cell \in Cells, keyspace \in Keyspaces :
        DeleteSrvKeyspace("c1", cell, keyspace, TRUE, limit)

SeqGetSrvKeyspace(limit) ==
    \E cell \in Cells, keyspace \in Keyspaces :
        GetSrvKeyspace("c1", cell, keyspace, TRUE, limit)

SeqGetSrvVSchema(limit) == \E cell \in Cells : GetSrvVSchema("c1", cell, TRUE, limit)

SeqGetSrvKeyspaceNames(limit) ==
    \E cell \in Cells : GetSrvKeyspaceNames("c1", cell, TRUE, limit)

NextSeq(limit) ==
    \/ SeqUpdateSrvKeyspace(limit)
    \/ SeqUpdateSrvVSchema(limit)
    \/ SeqCreateRecursive
    \/ SeqDeleteSrvKeyspace(limit)
    \/ SeqGetSrvKeyspace(limit)
    \/ SeqGetSrvVSchema(limit)
    \/ SeqGetSrvKeyspaceNames(limit)

\* SpecSeq: the sequential client on a store only it writes to
SpecSeq == InitStore /\ [][NextSeq(MaxCalls)]_vars

\* SpecEnv: the sequential client on a store that other tools have written to
SpecEnv == InitEnv /\ [][NextSeq(MaxEnvCalls)]_vars

\* SpecCells: the sequential client on a store of two cells, with the same
\* keyspace names in both; round trips may fail in transport
TwoCells == {"test", "other"}

CellsUpdateSrvKeyspace ==
    \E cell \in TwoCells, keyspace \in Keyspaces, d \in SrvKeyspaces :
        UpdateSrvKeyspace("c1", cell, keyspace, d, TRUE, MaxCellCalls)

CellsUpdateSrvVSchema ==
    \E cell \in TwoCells, v \in SrvVSchemas :
        UpdateSrvVSchema("c1", cell, v, TRUE, MaxCellCalls)

CellsCreateRecursive == CreateRecursiveStep("c1", TRUE)

CellsDeleteSrvKeyspace ==
    \E cell \in TwoCells, keyspace \in Keyspaces :
        DeleteSrvKeyspace("c1", cell, keyspace, TRUE, MaxCellCalls)

CellsGetSrvKeyspace ==
    \E cell \in TwoCells, keyspace \in Keyspaces :
        GetSrvKeyspace("c1", cell, keyspace, TRUE, MaxCellCalls)

CellsGetSrvVSchema == \E cell \in TwoCells : GetSrvVSchema("c1", cell, TRUE, MaxCellCalls)

CellsGetSrvKeyspaceNames ==
    \E cell \in TwoCells : GetSrvKeyspaceNames("c1", cell, TRUE, MaxCellCalls)

NextCells ==
    \/ CellsUpdateSrvKeyspace
    \/ CellsUpdateSrvVSchema
    \/ CellsCreateRecursive
    \/ CellsDeleteSrvKeyspace
    \/ CellsGetSrvKeyspace
    \/ CellsGetSrvVSchema
    \/ CellsGetSrvKeyspaceNames

SpecCells == InitCells /\ [][NextCells]_vars

\* SpecRace: two clients update and delete the same keys concurrently,
\* interleaved at the round trips; round trips may fail in transport
RaceKeyspaces == {"a"}

RaceUpdateSrvKeyspace ==
    \E c \in Clients, cell \in Cells, keyspace \in RaceKeyspaces, d \in SrvKeyspaces :
        UpdateSrvKeyspace(c, cell, keyspace, d, TRUE, MaxRaceCalls)

RaceUpdateSrvVSchema ==
    \E c \in Clients, cell \in Cells, v \in SrvVSchemas :
        UpdateSrvVSchema(c, cell, v, TRUE, MaxRaceCalls)

RaceCreateRecursive == \E c \in Clients : CreateRecursiveStep(c, TRUE)

RaceDeleteSrvKeyspace ==
    \E c \in Clients, cell \in Cells, keyspace \in RaceKeyspaces :
        DeleteSrvKeyspace(c, cell, keyspace, TRUE, MaxRaceCalls)

NextRace ==
    \/ RaceUpdateSrvKeyspace
    \/ RaceUpdateSrvVSchema
    \/ RaceCreateRecursive
    \/ RaceDeleteSrvKeyspace

SpecRace == InitStore /\ [][NextRace]_vars

\* SpecOwn: two clients update concurrently, each its own keyspace of the same
\* cell; no round trip fails
OwnKeyspace(c) == IF c = "c1" THEN "a" ELSE "b"

OwnUpdateSrvKeyspace ==
    \E c \in Clients, cell \in Cells, d \in SrvKeyspaces :
        UpdateSrvKeyspace(c, cell, OwnKeyspace(c), d, FALSE, MaxRaceCalls)

OwnCreateRecursive == \E c \in Clients : CreateRecursiveStep(c, FALSE)

NextOwn == OwnUpdateSrvKeyspace \/ OwnCreateRecursive

SpecOwn == InitStore /\ [][NextOwn]_vars

\* SpecNew: a caller builds one entry from a row of at most MaxFields
\* fields, with as many values
FieldNames ==
    { FieldHost, FieldUser, FieldDb, FieldPassword, <<83>>, <<104, 111, 115, 116>> }

Values == { <<>>, <<<<97>>>>, <<<<89>>>> }

Rows ==
    UNION { { [fields |-> [i \in 1..n |-> [Name |-> f[i]]], values |-> v] :
                f \in [1..n -> FieldNames], v \in [1..n -> Values] } : n \in 0..MaxFields }

InitNew ==
    /\ \E row \in Rows :
         ctor = [pc |-> "ready", kind |-> "", fields |-> row.fields,
                 values |-> row.values, entry |-> <<>>]
    /\ left = [UserPermissions |-> <<>>, DbPermissions |-> <<>>, HostPermissions |-> <<>>]
    /\ right = left
    /\ dpc = "ready"
    /\ er = <<>>
    /\ result = Nil
    /\ loop = IdleLoop
    /\ nodes = (<<>> :> "")
    /\ IdleClients

NextNew == CallNewUserPermission \/ CallNewDbPermission \/ CallNewHostPermission

SpecNew == InitNew /\ [][NextNew]_vars

\* SpecLoop: one call of diffPermissions on two lists of one kind, run an
\* iteration at a time; the call keeps running until it returns
OfOneKind(kind) ==
    { p \in Snapshots : \A k \in {"user", "db", "host"} \ {kind} : PLen(WrapList(p, k)) = 0 }

InitLoop ==
    /\ \E kind \in {"user", "db", "host"} :
         left \in OfOneKind(kind) /\ right \in OfOneKind(kind)
    /\ dpc = "ready"
    /\ er = <<>>
    /\ result = Nil
    /\ loop = IdleLoop
    /\ ctor = IdleCtor
    /\ nodes = (<<>> :> "")
    /\ IdleClients

LoopCalls == \E kind \in {"user", "db", "host"} : LoopCall(kind)

NextLoop == LoopCalls \/ LoopCompare \/ LoopDrainLeft \/ LoopDrainRight

SpecLoop == InitLoop /\ [][NextLoop]_vars /\ WF_vars(NextLoop)

\* SpecCtx: the sequential client, whose context the caller may cancel at any
\* moment, before a call or between the round trips of one.  No method of
\* Server reads its ctx argument.
CtxCancel ==
    /\ ~ctx["c1"]
    /\ ctx' = [ctx EXCEPT !["c1"] = TRUE]
    /\ UNCHANGED <<nodes, calls, hist, faults>>
    /\ UNCHANGED diffVars

NextCtx == NextSeq(MaxCtxCalls) \/ CtxCancel

SpecCtx == InitStore /\ [][NextCtx]_vars

(***************************************************************************)
(* Vocabulary of the claims about the permission diff.                     *)
(***************************************************************************)
Kinds == <<"user", "db", "host">>

\* the two lists of one kind, wrapped as the code wraps them
ListOf(p, kind) ==
    CASE kind = "user" -> userPermissionList(p.UserPermissions)
      [] kind = "db" -> dbPermissionList(p.DbPermissions)
      [] kind = "host" -> hostPermissionList(p.HostPermissions)

EntriesOf(kind) ==
    CASE kind = "user" -> UserEntries [] kind = "db" -> DbEntries [] kind = "host" -> HostEntries

\* every primary key and rendering an entry of the kind can have
KeysByKind ==
    [kind \in {"user", "db", "host"} |->
        { Get([kind |-> kind, items |-> <<e>>], 0).pk : e \in EntriesOf(kind) }]
ValsByKind ==
    [kind \in {"user", "db", "host"} |->
        { Get([kind |-> kind, items |-> <<e>>], 0).val : e \in EntriesOf(kind) }]
AllKeys(kind) == KeysByKind[kind]
AllVals(kind) == ValsByKind[kind]

KeysIn(pl) == { Get(pl, i).pk : i \in 0..(PLen(pl) - 1) }
ValsAt(pl, pk) == { Get(pl, i).val : i \in { j \in 0..(PLen(pl) - 1) : Get(pl, j).pk = pk } }

Ascending(pl) ==
    \A i, j \in 0..(PLen(pl) - 1) : i < j => ~StrLess(Get(pl, j).pk, Get(pl, i).pk)

StrictlyAscending(pl) ==
    \A i, j \in 0..(PLen(pl) - 1) : i < j => StrLess(Get(pl, i).pk, Get(pl, j).pk)

Count(rec, msg) == Cardinality({ i \in DOMAIN rec : rec[i] = msg })

Occurrences(items, e) == Cardinality({ i \in DOMAIN items : items[i] = e })

\* the same entries, in any order
SameEntries(a, b) ==
    /\ Len(a) = Len(b)
    /\ \A i \in DOMAIN a : Occurrences(a, a[i]) = Occurrences(b, a[i])

SameSnapshotEntries ==
    /\ SameEntries(left.UserPermissions, right.UserPermissions)
    /\ SameEntries(left.DbPermissions, right.DbPermissions)
    /\ SameEntries(left.HostPermissions, right.HostPermissions)

\* the messages that are about primary key pk of the kind
ExtraRecords(kind, pk) == { ExtraError(side, kind, pk) : side \in {LeftName, RightName} }
DisagreeRecords(kind, pk) ==
    { DisagreeError(LeftName, RightName, kind, pk, lv, rv) :
        lv \in AllVals(kind), rv \in AllVals(kind) }
RecordsAbout(kind, pk) == ExtraRecords(kind, pk) \cup DisagreeRecords(kind, pk)
RecordsByKind ==
    [kind \in {"user", "db", "host"} |->
        UNION { RecordsAbout(kind, pk) : pk \in AllKeys(kind) }]
RecordsOfKind(kind) == RecordsByKind[kind]

\* every message the diff can produce, with the kind and the key it is about
Classified ==
    [msg \in UNION { RecordsOfKind(Kinds[k]) : k \in 1..3 } |->
        LET k == CHOOSE n \in 1..3 : msg \in RecordsOfKind(Kinds[n])
        IN [rank |-> k,
            key |-> CHOOSE pk \in AllKeys(Kinds[k]) : msg \in RecordsAbout(Kinds[k], pk)]]
KindRank(msg) == Classified[msg].rank
KeyOf(msg) == Classified[msg].key

(***************************************************************************)
(* C1.                                                                     *)
(***************************************************************************)
\* C1 as claimed: two snapshots that contain the same User, Db and Host
\* entries, in whatever order each side lists them, make
\* DiffPermissionsToArray return nil.
C1_SameEntriesAnyOrderNil ==
    (dpc = "listed" /\ SameSnapshotEntries) => result = Nil

\* C1 as amended: two snapshots that list the same entries in the same order
\* on both sides make DiffPermissionsToArray return nil.
C1_SameOrderNil ==
    (dpc = "listed" /\ left = right) => result = Nil

\* identical two-entry user lists, listed in descending key order, were diffed
C1_Witness ==
    /\ dpc = "listed"
    /\ left = right
    /\ Len(left.UserPermissions) = 2
    /\ ~Ascending(userPermissionList(left.UserPermissions))
    /\ result = Nil

(***************************************************************************)
(* C3.                                                                     *)
(***************************************************************************)
\* the extra-entry records of one kind are one per key held by one side only
ExtrasExact(kind) ==
    LET l == ListOf(left, kind)
        r == ListOf(right, kind)
    IN \A pk \in AllKeys(kind) :
        /\ Count(er, ExtraError(LeftName, kind, pk))
             = (IF pk \in KeysIn(l) \ KeysIn(r) THEN 1 ELSE 0)
        /\ Count(er, ExtraError(RightName, kind, pk))
             = (IF pk \in KeysIn(r) \ KeysIn(l) THEN 1 ELSE 0)

BothStrict(kind) ==
    StrictlyAscending(ListOf(left, kind)) /\ StrictlyAscending(ListOf(right, kind))

BothAscending(kind) == Ascending(ListOf(left, kind)) /\ Ascending(ListOf(right, kind))

\* the keys one side holds and the other lacks, as <<kind, side, key>>
OneSided ==
    UNION { { <<Kinds[k], LeftName, pk>> :
                pk \in KeysIn(ListOf(left, Kinds[k])) \ KeysIn(ListOf(right, Kinds[k])) }
            \cup
            { <<Kinds[k], RightName, pk>> :
                pk \in KeysIn(ListOf(right, Kinds[k])) \ KeysIn(ListOf(left, Kinds[k])) }
            : k \in 1..3 }

\* the keys both sides hold with different renderings, as <<kind, key>>
Differing ==
    UNION { { <<Kinds[k], pk>> :
                pk \in { q \in KeysIn(ListOf(left, Kinds[k])) \cap KeysIn(ListOf(right, Kinds[k])) :
                           ValsAt(ListOf(left, Kinds[k]), q) # ValsAt(ListOf(right, Kinds[k]), q) } }
            : k \in 1..3 }

\* C3: for lists in strictly ascending key order, diffPermissions records
\* exactly one "<side> has an extra <kind> <key>" for every key held by
\* exactly one side, naming that side, and none for a key both sides hold;
\* when a single key on one side is the only difference, that record is the
\* whole result.
C3_ExtraRecords ==
    dpc = "diffed" =>
        /\ \A k \in 1..3 : BothStrict(Kinds[k]) => ExtrasExact(Kinds[k])
        /\ ((\A k \in 1..3 : BothStrict(Kinds[k]))
              /\ Cardinality(OneSided) = 1 /\ Differing = {})
             => \E x \in OneSided : er = <<ExtraError(x[2], x[1], x[3])>>

\* the scenario of the specification: the right side has one more user
C3_Witness ==
    /\ dpc = "diffed"
    /\ \A k \in 1..3 : BothStrict(Kinds[k])
    /\ Len(left.UserPermissions) = 1
    /\ Len(right.UserPermissions) = 2
    /\ left.UserPermissions[1] = right.UserPermissions[1]
    /\ er = <<"Right has an extra user b:a">>

(***************************************************************************)
(* C4.                                                                     *)
(***************************************************************************)
\* C4: for lists in strictly ascending key order, diffPermissions records
\* exactly one content mismatch for every key both sides hold with different
\* renderings, carrying the left and the right rendering as they are, and no
\* content mismatch for any other key or with any other renderings.
C4_DisagreeRecords ==
    dpc = "diffed" =>
        \A k \in 1..3 : BothStrict(Kinds[k]) =>
            LET kind == Kinds[k]
                l == ListOf(left, kind)
                r == ListOf(right, kind)
            IN \A pk \in AllKeys(kind), lv \in AllVals(kind), rv \in AllVals(kind) :
                 Count(er, DisagreeError(LeftName, RightName, kind, pk, lv, rv))
                   = (IF /\ pk \in KeysIn(l) \cap KeysIn(r)
                         /\ ValsAt(l, pk) = {lv}
                         /\ ValsAt(r, pk) = {rv}
                         /\ lv # rv
                      THEN 1 ELSE 0)

\* user a:a has no password on the left and a password and a grant on the right
C4_Witness ==
    /\ dpc = "diffed"
    /\ \A k \in 1..3 : BothStrict(Kinds[k])
    /\ er = <<"Left and Right disagree on user a:a:\nUserPermission NoPassword\n differs from:\nUserPermission PasswordChecksum(5) S(Y)">>

(***************************************************************************)
(* C10.                                                                    *)
(***************************************************************************)
KindsInOrder ==
    \A i, j \in DOMAIN er : i < j => KindRank(er[i]) <= KindRank(er[j])

KeysInOrder(kind) ==
    \A i, j \in DOMAIN er :
        (i < j /\ er[i] \in RecordsOfKind(kind) /\ er[j] \in RecordsOfKind(kind))
            => ~StrLess(KeyOf(er[j]), KeyOf(er[i]))

\* a kind whose two lists hold different keys has a record in the result
EveryKindDiffed ==
    \A k \in 1..3 :
        KeysIn(ListOf(left, Kinds[k])) # KeysIn(ListOf(right, Kinds[k]))
            => \E i \in DOMAIN er : er[i] \in RecordsOfKind(Kinds[k])

\* C10 as claimed: the records of DiffPermissions are the user records, then
\* the db records, then the host records, each kind in ascending key order,
\* and every kind is diffed whatever the earlier kinds produced.
C10_OrderedRecords ==
    dpc = "diffed" =>
        /\ KindsInOrder
        /\ \A k \in 1..3 : KeysInOrder(Kinds[k])
        /\ EveryKindDiffed

\* C10 as amended: the same, with the ascending key order within a kind
\* claimed only for a kind whose two lists are in ascending key order.
C10_OrderedRecordsOfSortedLists ==
    dpc = "diffed" =>
        /\ KindsInOrder
        /\ \A k \in 1..3 : BothAscending(Kinds[k]) => KeysInOrder(Kinds[k])
        /\ EveryKindDiffed

\* two user records in key order are followed by a host record
C10_Witness ==
    /\ dpc = "diffed"
    /\ \A k \in 1..3 : BothAscending(Kinds[k])
    /\ Len(er) = 3
    /\ er[1] = "Left has an extra user a:a"
    /\ er[2] = "Left has an extra user b:a"
    /\ er[3] = "Right has an extra host a:d"


(***************************************************************************)
(* Vocabulary of the claims about the store.                               *)
(***************************************************************************)
UpdateOps == {"UpdateSrvKeyspace", "UpdateSrvVSchema"}
WriteOps == UpdateOps \cup {"DeleteSrvKeyspace"}
GetOps == {"GetSrvKeyspace", "GetSrvVSchema"}

\* the record a call is about: a keyspace descriptor or a cell's schema routing
RecordOf(h) ==
    IF h.op \in {"UpdateSrvVSchema", "GetSrvVSchema"} THEN <<"vschema", h.cell>>
    ELSE <<"keyspace", h.cell, h.keyspace>>

\* where the records live in the service
KeyspacePath(cell, keyspace) == <<"zk", cell, "vt", "ns", keyspace>>
VSchemaPath(cell) == <<"zk", cell, "vt", "vschema">>
PathOfRecord(rec) ==
    IF rec[1] = "vschema" THEN VSchemaPath(rec[2]) ELSE KeyspacePath(rec[2], rec[3])

\* the serialized form of the value an update call was given
DataOf(h) ==
    IF h.op = "UpdateSrvVSchema" THEN MarshalSrvVSchema(h.arg[1])
    ELSE MarshalSrvKeyspace(h.arg[1])

SetMax(S) == CHOOSE x \in S : \A y \in S : y <= x

\* the successful updates and deletes of record rec among the first n calls
WritesBefore(rec, n) ==
    { j \in 1..n : hist[j].op \in WriteOps /\ RecordOf(hist[j]) = rec /\ hist[j].err = Nil }

\* rec was created by an update and not deleted since, after the first n calls
Live(rec, n) ==
    LET w == WritesBefore(rec, n)
    IN w # {} /\ hist[SetMax(w)].op \in UpdateOps

\* this step is the return of a call; Returned is the call as logged
Returns == Len(hist') = Len(hist) + 1
Returned == hist'[Len(hist')]
Failed == faults' # faults

\* client c makes a round trip in this step
Steps(c) ==
    \/ Returns /\ Returned.client = c
    \/ calls'[c].pc # calls[c].pc
    \/ calls'[c].trips # calls[c].trips

(***************************************************************************)
(* C2.                                                                     *)
(***************************************************************************)
\* C2: in a sequential history without transport failures, GetSrvKeyspace and
\* GetSrvVSchema return NotFound exactly when the record was never created or
\* was deleted since its last successful update, and otherwise return the
\* descriptor of the most recent successful update of that record.
C2_ReadYourWrites ==
    faults = 0 =>
        \A i \in DOMAIN hist :
            hist[i].op \in GetOps =>
                IF Live(RecordOf(hist[i]), i - 1)
                THEN /\ hist[i].err = Nil
                     /\ hist[i].value
                          = hist[SetMax(WritesBefore(RecordOf(hist[i]), i - 1))].arg
                ELSE /\ hist[i].err = TopoErrNoNode
                     /\ hist[i].value = <<>>

\* a keyspace is created, read back, deleted and read again
C2_Witness ==
    /\ faults = 0
    /\ Len(hist) = 3
    /\ hist[1].op = "UpdateSrvKeyspace" /\ hist[1].keyspace = "a" /\ hist[1].err = Nil
    /\ hist[1].arg = <<[ShardingColumnName |-> "id"]>>
    /\ hist[2].op = "DeleteSrvKeyspace" /\ hist[2].keyspace = "a" /\ hist[2].err = Nil
    /\ hist[3].op = "GetSrvKeyspace" /\ hist[3].keyspace = "a"
    /\ hist[3].err = TopoErrNoNode

(***************************************************************************)
(* C5.                                                                     *)
(***************************************************************************)
\* a client whose Create of its own key finds the key taken
LosesCreate(c) ==
    /\ calls[c].pc \in {"create1", "create2"}
    /\ calls[c].cur = calls[c].path
    /\ calls[c].path \in DOMAIN nodes
    /\ calls'[c] # calls[c]
    /\ ~Failed

\* what the loser does: it returns the conflict and leaves the store alone
LoserGivesUp(c) ==
    /\ calls'[c].pc = "done"
    /\ calls'[c].err = TopoErrNodeExists
    /\ Len(calls'[c].trips) = Len(calls[c].trips) + 1
    /\ nodes' = nodes

\* every record in the store holds the whole value of an update that succeeded
HoldsASuccessfulWrite ==
    \A h \in { hist[i] : i \in DOMAIN hist } :
        (h.op \in UpdateOps /\ PathOfRecord(RecordOf(h)) \in DOMAIN nodes)
            => \E i \in DOMAIN hist :
                  /\ hist[i].op \in UpdateOps
                  /\ RecordOf(hist[i]) = RecordOf(h)
                  /\ hist[i].err = Nil
                  /\ DataOf(hist[i]) = nodes[PathOfRecord(RecordOf(h))]

\* updates that ran without failures and without a delete leave the record
\* in the store
UpdatedIsPresent ==
    \A i \in DOMAIN hist :
        (/\ hist[i].op \in UpdateOps
         /\ faults = 0
         /\ \A j \in DOMAIN hist : hist[j].op = "DeleteSrvKeyspace" => hist[j].err # Nil)
            => PathOfRecord(RecordOf(hist[i])) \in DOMAIN nodes

\* every record in the store holds the whole value of an update that
\* succeeded, or of one that returned the failure of a round trip that was
\* served and whose reply was lost
HoldsAServedWrite ==
    \A h \in { hist[i] : i \in DOMAIN hist } :
        (h.op \in UpdateOps /\ PathOfRecord(RecordOf(h)) \in DOMAIN nodes)
            => \E i \in DOMAIN hist :
                  /\ hist[i].op \in UpdateOps
                  /\ RecordOf(hist[i]) = RecordOf(h)
                  /\ hist[i].err \in {Nil, ZkErrConnectionClosed}
                  /\ DataOf(hist[i]) = nodes[PathOfRecord(RecordOf(h))]

\* C5 as claimed: when updates race to create the same absent key, also with
\* a delete landing between an update's Set and its create, the create is
\* atomic-if-absent: the writer that loses it returns an error, makes no
\* further round trip and does not overwrite, and the key holds the whole
\* value of one writer that succeeded.
C5_CreateRaceSurfaced ==
    /\ [][\A c \in Clients : LosesCreate(c) => LoserGivesUp(c)]_vars
    /\ [](HoldsASuccessfulWrite /\ UpdatedIsPresent)

\* C5, amended: as claimed, but the writer whose value the key holds
\* returned success only if no round trip failed in transport; a writer whose
\* create was served and whose reply was lost returns the transport failure
\* and its value stays.
C5_CreateRaceSurfacedUnlessReplyLost ==
    /\ [][\A c \in Clients : LosesCreate(c) => LoserGivesUp(c)]_vars
    /\ [](HoldsAServedWrite /\ UpdatedIsPresent)
    /\ [](faults = 0 => HoldsASuccessfulWrite)

\* both clients found the key absent; c1 created it and c2 got the conflict
C5_Witness ==
    /\ faults = 0
    /\ calls["c1"].op = "UpdateSrvKeyspace" /\ calls["c2"].op = "UpdateSrvKeyspace"
    /\ calls["c1"].pc = "done" /\ calls["c2"].pc = "done"
    /\ calls["c1"].path = calls["c2"].path
    /\ calls["c1"].data # calls["c2"].data
    /\ calls["c1"].err = Nil
    /\ calls["c2"].err = TopoErrNodeExists
    /\ calls["c1"].trips[Len(calls["c1"].trips)] = "Create"
    /\ calls["c1"].path \in DOMAIN nodes
    /\ nodes[calls["c1"].path] = calls["c1"].data

(***************************************************************************)
(* C6.                                                                     *)
(***************************************************************************)
\* C6: updates issued concurrently for different keyspaces of one cell all
\* succeed, also when the namespaces above the keys are missing and both
\* calls create them, and each key holds the value its own writer wrote.
C6_OwnKeysIndependent ==
    /\ \A i \in DOMAIN hist : hist[i].err = Nil
    /\ \A c \in Clients :
          calls[c].pc = "done" =>
              /\ KeyspacePath(calls[c].cell, calls[c].keyspace) \in DOMAIN nodes
              /\ nodes[KeyspacePath(calls[c].cell, calls[c].keyspace)]
                   = MarshalSrvKeyspace(calls[c].arg[1])

\* both clients found the namespace missing, both went on to create the
\* parents, and both are done
C6_Witness ==
    /\ \A c \in Clients :
          /\ calls[c].pc = "done"
          /\ calls[c].err = Nil
          /\ Len(calls[c].trips) >= 4
    /\ calls["c1"].keyspace # calls["c2"].keyspace
    /\ nodes[KeyspacePath("test", "a")] = MarshalSrvKeyspace(calls["c1"].arg[1])
    /\ nodes[KeyspacePath("test", "b")] = MarshalSrvKeyspace(calls["c2"].arg[1])

(***************************************************************************)
(* C7.                                                                     *)
(***************************************************************************)
\* the update that returns in this step reports success only if this step's
\* round trip left its whole value in the store
SuccessMeansStored ==
    (Returns /\ Returned.op \in UpdateOps /\ Returned.err = Nil)
        => /\ PathOfRecord(RecordOf(Returned)) \in DOMAIN nodes'
           /\ nodes'[PathOfRecord(RecordOf(Returned))] = DataOf(Returned)
           /\ ~Failed

\* an update whose last round trip did not store its value reports an error
NotStoredMeansError ==
    (/\ Returns
     /\ Returned.op \in UpdateOps
     /\ \/ nodes' = nodes
        \/ Failed)
        => \/ Returned.err # Nil
           \/ /\ PathOfRecord(RecordOf(Returned)) \in DOMAIN nodes
              /\ nodes[PathOfRecord(RecordOf(Returned))] = DataOf(Returned)

\* whatever a record holds is the whole serialized value of one update call
HoldsWholeValues ==
    /\ \A cell \in Cells, keyspace \in Keyspaces :
          KeyspacePath(cell, keyspace) \in DOMAIN nodes
              => \E d \in SrvKeyspaces :
                    nodes[KeyspacePath(cell, keyspace)] = MarshalSrvKeyspace(d)
    /\ \A cell \in Cells :
          VSchemaPath(cell) \in DOMAIN nodes
              => \E v \in SrvVSchemas : nodes[VSchemaPath(cell)] = MarshalSrvVSchema(v)

\* C7: no write is lost silently: an update that returns success had its
\* whole value stored by its Set or create round trip, an update whose value
\* was not stored returns an error, and a record always holds the whole
\* value of one update call.
C7_NoSilentLoss ==
    /\ [][SuccessMeansStored /\ NotStoredMeansError]_vars
    /\ []HoldsWholeValues

\* c1 created the key after its Set found nothing; c2's update failed in
\* transport and says so
C7_Witness ==
    /\ calls["c1"].op = "UpdateSrvKeyspace" /\ calls["c1"].pc = "done"
    /\ calls["c1"].err = Nil
    /\ calls["c1"].trips[Len(calls["c1"].trips)] = "Create"
    /\ nodes[calls["c1"].path] = calls["c1"].data
    /\ calls["c2"].op = "UpdateSrvKeyspace" /\ calls["c2"].pc = "done"
    /\ calls["c2"].data # calls["c1"].data
    /\ calls["c2"].err = ZkErrConnectionClosed

(***************************************************************************)
(* C8.                                                                     *)
(***************************************************************************)
Unmarshalled(op, data) ==
    IF op = "GetSrvVSchema" THEN UnmarshalSrvVSchema(data) ELSE UnmarshalSrvKeyspace(data)

\* the outcome of a read, given what the service held and whether the round
\* trip failed
ReadOutcome(h, failed) ==
    LET path == PathOfRecord(RecordOf(h))
        notFound == h.err = TopoErrNoNode /\ h.value = <<>>
        otherError == h.err \notin {Nil, TopoErrNoNode} /\ h.value = <<>>
    IN IF failed THEN otherError
       ELSE IF path \notin DOMAIN nodes THEN notFound
       ELSE IF nodes[path] = "" THEN notFound
       ELSE IF Unmarshalled(h.op, nodes[path]).err # Nil THEN otherError
       ELSE h.err = Nil /\ h.value = Unmarshalled(h.op, nodes[path]).value

\* C8: GetSrvKeyspace and GetSrvVSchema return NotFound when the node is
\* absent or holds the empty value, an error other than NotFound when the
\* value is not empty and cannot be deserialized, an error other than
\* NotFound when the round trip fails otherwise, and the descriptor in every
\* other case.
C8_ReadOutcomes ==
    [][(Returns /\ Returned.op \in GetOps) => ReadOutcome(Returned, Failed)]_vars

\* the keyspace record holds a truncated document and the read says so
C8_Witness ==
    /\ KeyspacePath("test", "a") \in DOMAIN nodes
    /\ nodes[KeyspacePath("test", "a")] = "{"
    /\ Len(hist) = 1
    /\ hist[1].op = "GetSrvKeyspace" /\ hist[1].keyspace = "a"
    /\ hist[1].err = "SrvKeyspace unmarshal failed: { unexpected end of JSON input"
    /\ hist[1].value = <<>>

(***************************************************************************)
(* C9.                                                                     *)
(***************************************************************************)
NamesAscending(names) ==
    \A i, j \in DOMAIN names : i < j => StrLess(Bytes(names[i]), Bytes(names[j]))

\* C9: GetSrvKeyspaceNames returns nothing and no error when the cell has no
\* keyspace namespace, returns in ascending order exactly the keyspaces that
\* were created under the cell and not deleted since, in whatever order they
\* were created, and fails only when the round trip fails for another reason
\* than not-found.
C9_SortedNames ==
    [][(Returns /\ Returned.op = "GetSrvKeyspaceNames") =>
          IF Failed
          THEN Returned.err \notin {Nil, TopoErrNoNode} /\ Returned.value = <<>>
          ELSE /\ Returned.err = Nil
               /\ NamesAscending(Returned.value)
               /\ { Returned.value[i] : i \in DOMAIN Returned.value }
                    = { k \in Keyspaces : KeyspacePath(Returned.cell, k) \in DOMAIN nodes }
               /\ faults = 0
                    => { Returned.value[i] : i \in DOMAIN Returned.value }
                         = { k \in Keyspaces :
                               Live(<<"keyspace", Returned.cell, k>>, Len(hist)) }
               /\ <<"zk", Returned.cell, "vt", "ns">> \notin DOMAIN nodes
                    => Returned.value = <<>>
      ]_vars

\* "b" was created before "a", and the names come back as a, b
C9_Witness ==
    /\ Len(hist) = 3
    /\ hist[1].op = "UpdateSrvKeyspace" /\ hist[1].keyspace = "b" /\ hist[1].err = Nil
    /\ hist[2].op = "UpdateSrvKeyspace" /\ hist[2].keyspace = "a" /\ hist[2].err = Nil
    /\ hist[3].op = "GetSrvKeyspaceNames"
    /\ hist[3].err = Nil
    /\ hist[3].value = <<"a", "b">>

(***************************************************************************)
(* C11.                                                                    *)
(***************************************************************************)
\* the lists that hold the entries of items in some order
PermsOf(items) == { q \in [DOMAIN items -> { items[i] : i \in DOMAIN items }] :
                      SameEntries(q, items) }

\* the snapshots that hold the entries of p, each list in some order
PermutedSnapshots(p) ==
    [UserPermissions : PermsOf(p.UserPermissions),
     DbPermissions : PermsOf(p.DbPermissions),
     HostPermissions : PermsOf(p.HostPermissions)]

\* what the two sides' entries of one key call for: nothing, an extra entry
\* on one side, or a content mismatch
ReportOfKey(kind, l, r, pk) ==
    IF pk \notin KeysIn(r) THEN <<ExtraError(LeftName, kind, pk)>>
    ELSE IF pk \notin KeysIn(l) THEN <<ExtraError(RightName, kind, pk)>>
    ELSE LET lv == CHOOSE v \in ValsAt(l, pk) : TRUE
             rv == CHOOSE v \in ValsAt(r, pk) : TRUE
         IN IF lv # rv
            THEN <<DisagreeError(LeftName, RightName, kind, pk, lv, rv)>>
            ELSE <<>>

RECURSIVE ReportOfKeys(_, _, _, _)
ReportOfKeys(kind, l, r, keys) ==
    IF keys = <<>> THEN <<>>
    ELSE ReportOfKey(kind, l, r, Head(keys)) \o ReportOfKeys(kind, l, r, Tail(keys))

\* the report that the sets of entries of the two sides determine
ReportOfKind(kind) ==
    LET l == ListOf(left, kind)
        r == ListOf(right, kind)
    IN ReportOfKeys(kind, l, r, SortKeys(KeysIn(l) \cup KeysIn(r)))

ReportOfEntrySets == ReportOfKind("user") \o ReportOfKind("db") \o ReportOfKind("host")

\* C11 as claimed: whatever order each snapshot lists its entries in,
\* DiffPermissionsToArray returns the identical sequence of mismatch strings.
C11_PermutationInvariant ==
    dpc = "listed" =>
        \A p \in PermutedSnapshots(left), q \in PermutedSnapshots(right) :
            DiffPermissionsToArray(LeftName, p, RightName, q) = result

\* C11 as amended: when every list is in strictly ascending primary-key
\* order, the sequence DiffPermissionsToArray returns is the one the sets of
\* entries of the two sides determine: ascending by key within a kind, an
\* extra-entry record for a key one side lacks, a content mismatch for a key
\* both hold with different renderings, nil when there is none.
C11_ReportOfSortedSnapshots ==
    (dpc = "listed" /\ \A k \in 1..3 : BothStrict(Kinds[k])) =>
        result = (IF ReportOfEntrySets = <<>> THEN Nil ELSE ReportOfEntrySets)

\* sorted user lists: a:a differs in content and b:a is on the left only
C11_Witness ==
    /\ dpc = "listed"
    /\ \A k \in 1..3 : BothStrict(Kinds[k])
    /\ Len(left.UserPermissions) = 2
    /\ Len(right.UserPermissions) = 1
    /\ result # Nil
    /\ Len(result) = 2
    /\ result[2] = "Left has an extra user b:a"
    /\ result[1] \in DisagreeRecords("user", <<97, 58, 97>>)

(***************************************************************************)
(* C12.                                                                    *)
(***************************************************************************)
\* the store without the node at path, everything else as it was
Without(n, path) == [q \in DOMAIN n \ {path} |-> n[q]]

\* the outcome of a delete, given what the service held and whether the
\* round trip failed in transport; a delete that failed so was lost or was
\* served and its reply lost
DeleteOutcome(h, failed) ==
    LET path == KeyspacePath(h.cell, h.keyspace)
    IN IF failed
       THEN /\ h.err \notin {Nil, TopoErrNoNode}
            /\ nodes' \in {nodes, Without(nodes, path)}
       ELSE IF path \notin DOMAIN nodes
       THEN h.err = TopoErrNoNode /\ nodes' = nodes
       ELSE h.err = Nil /\ nodes' = Without(nodes, path)

\* C12: DeleteSrvKeyspace is not idempotent: deleting a key that is absent,
\* never created or already deleted, returns an error and leaves the store
\* unchanged; a delete whose round trip fails otherwise returns an error
\* too; it returns success only when the key existed and this call removed
\* it.
C12_DeleteNotIdempotent ==
    [][(Returns /\ Returned.op = "DeleteSrvKeyspace")
          => /\ DeleteOutcome(Returned, Failed)
             /\ KeyspacePath(Returned.cell, Returned.keyspace) \notin DOMAIN nodes
                  => Returned.err # Nil /\ nodes' = nodes
             /\ Returned.err = Nil
                  => /\ KeyspacePath(Returned.cell, Returned.keyspace) \in DOMAIN nodes
                     /\ KeyspacePath(Returned.cell, Returned.keyspace) \notin DOMAIN nodes'
             /\ (/\ ~Failed
                 /\ KeyspacePath(Returned.cell, Returned.keyspace) \in DOMAIN nodes
                 /\ KeyspacePath(Returned.cell, Returned.keyspace) \notin DOMAIN nodes')
                  => Returned.err = Nil
      ]_vars

\* a keyspace is created and deleted; deleting it again is an error
C12_Witness ==
    /\ faults = 0
    /\ Len(hist) = 3
    /\ hist[1].op = "UpdateSrvKeyspace" /\ hist[1].keyspace = "a" /\ hist[1].err = Nil
    /\ hist[2].op = "DeleteSrvKeyspace" /\ hist[2].keyspace = "a" /\ hist[2].err = Nil
    /\ hist[3].op = "DeleteSrvKeyspace" /\ hist[3].keyspace = "a"
    /\ hist[3].err = TopoErrNoNode
    /\ KeyspacePath("test", "a") \notin DOMAIN nodes
    /\ <<"zk", "test", "vt", "ns">> \in DOMAIN nodes

(***************************************************************************)
(* C14.                                                                    *)
(***************************************************************************)
\* C14: once the context of a client's call is cancelled, the call makes no
\* further round trip to the coordination service, in particular no create
\* after a Set that found no node.
C14_NoRoundTripAfterCancel ==
    [][\A c \in Clients : ctx[c] => ~Steps(c)]_vars

(***************************************************************************)
(* C15.                                                                    *)
(***************************************************************************)
\* C15: DiffPermissionsToArray returns nil exactly when the diff of the two
\* snapshots records no mismatch; otherwise it returns the recorded
\* mismatches, one string each, in the order DiffPermissions records them;
\* it never returns a sequence that is present and empty.
C15_NilIffNoMismatch ==
    [][(dpc = "diffed" /\ dpc' = "listed")
          => /\ (result' = Nil) <=> (Len(er) = 0)
             /\ Len(er) > 0 => result' = er
             /\ result' = Nil \/ Len(result') > 0
             /\ result' # Nil
                  => \A i \in DOMAIN result' : \E k \in 1..3 : result'[i] \in RecordsOfKind(Kinds[k])
      ]_vars

\* the caller's recorder holds two mismatches and the array lists the same two
C15_Witness ==
    /\ dpc = "listed"
    /\ Len(er) = 2
    /\ result = er
    /\ er[1] \in RecordsOfKind("user")
    /\ er[2] \in RecordsOfKind("host")

(***************************************************************************)
(* C16.                                                                    *)
(***************************************************************************)
\* the sequential client enters UpdateSrvKeyspace or UpdateSrvVSchema
StartsUpdate ==
    /\ calls["c1"].pc \in {"idle", "done"}
    /\ Steps("c1")
    /\ calls'["c1"].op \in UpdateOps

\* what the first round trip of an update is and what follows from it
SetFirst ==
    LET call == calls'["c1"]
    IN /\ call.trips = <<"Set">>
       /\ IF Failed
          THEN /\ call.pc = "done" /\ call.err = ZkErrConnectionClosed
               /\ \/ nodes' = nodes
                  \/ /\ call.path \in DOMAIN nodes
                     /\ nodes' = [nodes EXCEPT ![call.path] = call.data]
          ELSE IF call.path \in DOMAIN nodes
          THEN /\ call.pc = "done" /\ call.err = Nil
               /\ nodes' = [nodes EXCEPT ![call.path] = call.data]
          ELSE call.pc = "create1" /\ nodes' = nodes

\* an update that ends in the recursive create made only Creates after its
\* Set, and when it succeeds the key holds the value under all its parents
CreateFallback ==
    LET call == calls'["c1"]
    IN (Returns /\ Returned.op \in UpdateOps /\ Len(call.trips) > 1)
         => /\ \A i \in 2..Len(call.trips) : call.trips[i] = "Create"
            /\ Returned.err = Nil
                 => /\ Prefixes(call.path) \subseteq DOMAIN nodes'
                    /\ nodes'[call.path] = call.data
            /\ faults' = 0 => Returned.err = Nil

\* C16: UpdateSrvKeyspace and UpdateSrvVSchema attempt the Set first; when
\* the key exists that Set is the only round trip; when the Set finds no
\* node the recursive create makes the key with every missing parent and
\* stores the value; any other failure of the Set is returned and no create
\* is attempted.
C16_SetThenCreate ==
    [][(StartsUpdate => SetFirst) /\ CreateFallback]_vars

\* the first update created the key; the second found it and made one round
\* trip
C16_Witness ==
    /\ faults = 0
    /\ Len(hist) = 2
    /\ hist[1].op = "UpdateSrvKeyspace" /\ hist[1].err = Nil
    /\ hist[2].op = "UpdateSrvKeyspace" /\ hist[2].err = Nil
    /\ hist[1].keyspace = hist[2].keyspace
    /\ hist[1].arg # hist[2].arg
    /\ calls["c1"].pc = "done"
    /\ calls["c1"].trips = <<"Set">>
    /\ nodes[calls["c1"].path] = calls["c1"].data
    /\ Prefixes(calls["c1"].path) \subseteq DOMAIN nodes

(***************************************************************************)
(* C17.                                                                    *)
(***************************************************************************)
Running == loop.pc \in {"main", "left", "right", "done"}

\* an iteration moves each cursor forward by at most one and one at least
IterationAdvances ==
    (Running /\ loop'.s # loop.s)
        => /\ loop'.s.iters = loop.s.iters + 1
           /\ loop'.s.leftIndex \in {loop.s.leftIndex, loop.s.leftIndex + 1}
           /\ loop'.s.rightIndex \in {loop.s.rightIndex, loop.s.rightIndex + 1}
           /\ loop'.s.leftIndex + loop'.s.rightIndex
                > loop.s.leftIndex + loop.s.rightIndex
           /\ Len(loop'.s.er) \in {Len(loop.s.er), Len(loop.s.er) + 1}

\* the counts stay within the lengths of the two lists
WithinLengths ==
    Running =>
        /\ loop.s.leftIndex \in 0..PLen(loop.lft)
        /\ loop.s.rightIndex \in 0..PLen(loop.rgt)
        /\ loop.s.iters <= PLen(loop.lft) + PLen(loop.rgt)
        /\ Len(loop.s.er) <= loop.s.iters
        /\ loop.pc = "done"
             => /\ loop.s.leftIndex = PLen(loop.lft)
                /\ loop.s.rightIndex = PLen(loop.rgt)

\* C17: diffPermissions terminates on any two finite lists of lengths n and
\* m: every iteration advances at least one cursor by one and moves none
\* back, so there are at most n+m iterations, every entry is read at one
\* cursor position, both cursors end at the length of their list, and at
\* most n+m mismatches are recorded.
C17_Terminates ==
    /\ [][IterationAdvances]_vars
    /\ []WithinLengths
    /\ (loop.pc = "main") ~> (loop.pc = "done")

\* one entry against two with no key in common: three iterations, three
\* records
C17_Witness ==
    /\ loop.pc = "done"
    /\ PLen(loop.lft) = 1
    /\ PLen(loop.rgt) = 2
    /\ loop.s.iters = 3
    /\ Len(loop.s.er) = 3
    /\ loop.s.leftIndex = 1
    /\ loop.s.rightIndex = 2

(***************************************************************************)
(* C18.                                                                    *)
(***************************************************************************)
\* the field names a kind does not put into the privilege map
Consumed(kind) ==
    CASE kind = "user" -> {FieldHost, FieldUser, FieldPassword}
      [] kind = "db" -> {FieldHost, FieldDb, FieldUser}
      [] kind = "host" -> {FieldHost, FieldDb}

\* the last field of the row that has the name of field i
LastNamed(i) ==
    SetMax({ j \in DOMAIN ctor.fields : ctor.fields[j].Name = ctor.fields[i].Name })

ConsumedAreNoKeys == Consumed(ctor.kind) \cap DOMAIN ctor.entry.Privileges = {}

\* C18 as claimed: the entry built from a row never has an identity field
\* name of its kind, nor Password for the User kind, as a key of its
\* privilege map, and every other field name of the row is a key of the
\* map with that field's value.
C18_EveryFieldItsValue ==
    ctor.pc = "built" =>
        /\ ConsumedAreNoKeys
        /\ \A i \in DOMAIN ctor.fields :
              ctor.fields[i].Name \notin Consumed(ctor.kind)
                  => /\ ctor.fields[i].Name \in DOMAIN ctor.entry.Privileges
                     /\ ctor.entry.Privileges[ctor.fields[i].Name]
                          = ValueString(ctor.values[i])

\* C18 as amended: the same, with the value of the last field of that name
\* when a field name occurs more than once in the row.
C18_EveryFieldItsLastValue ==
    ctor.pc = "built" =>
        /\ ConsumedAreNoKeys
        /\ \A i \in DOMAIN ctor.fields :
              ctor.fields[i].Name \notin Consumed(ctor.kind)
                  => /\ ctor.fields[i].Name \in DOMAIN ctor.entry.Privileges
                     /\ ctor.entry.Privileges[ctor.fields[i].Name]
                          = ValueString(ctor.values[LastNamed(i)])

\* a Db entry was built from the fields Db and Password: Db is consumed and
\* Password is a privilege like any other
C18_Witness ==
    /\ ctor.pc = "built"
    /\ ctor.kind = "db"
    /\ Len(ctor.fields) = 2
    /\ ctor.fields[1].Name = FieldDb
    /\ ctor.fields[2].Name = FieldPassword
    /\ ctor.values = << <<<<97>>>>, <<<<89>>>> >>
    /\ ctor.entry.Db = <<97>>
    /\ DOMAIN ctor.entry.Privileges = {FieldPassword}
    /\ ctor.entry.Privileges[FieldPassword] = <<89>>

(***************************************************************************)
(* C19.                                                                    *)
(***************************************************************************)
\* Target is the key of the call client c makes a round trip of
Target(c) == PathOfRecord(RecordOf(calls'[c]))

\* the keys of the serving graph: every keyspace key and every schema key
ServingKeys ==
    { KeyspacePath(cell, keyspace) : cell \in TwoCells, keyspace \in Keyspaces }
    \cup { VSchemaPath(cell) : cell \in TwoCells }

\* path p is there or not as before, with the value it had
Kept(p) ==
    /\ p \in DOMAIN nodes <=> p \in DOMAIN nodes'
    /\ p \in DOMAIN nodes => nodes'[p] = nodes[p]

\* path p is a namespace above key that this step has created, empty
CreatedAbove(p, key) ==
    /\ p \in Prefixes(key) \ {key}
    /\ p \notin DOMAIN nodes
    /\ p \in DOMAIN nodes'
    /\ nodes'[p] = ""

\* a round trip of an update or a delete leaves every other key as it was,
\* and every other path too, but for the namespaces an update creates
OwnKeyOnly(c) ==
    (Steps(c) /\ calls'[c].op \in WriteOps)
      => /\ \A p \in ServingKeys \ {Target(c)} : Kept(p)
         /\ \A p \in (DOMAIN nodes \cup DOMAIN nodes') \ {Target(c)} :
              \/ Kept(p)
              \/ calls'[c].op \in UpdateOps /\ CreatedAbove(p, Target(c))

\* a read leaves the store as it was
ReadsKeepStore(c) ==
    (Steps(c) /\ calls'[c].op \in GetOps \cup {"GetSrvKeyspaceNames"})
      => nodes' = nodes

\* an update or a delete that returns the error of its first round trip
\* leaves the store as it was
FirstTripErrorKeepsStore(c) ==
    (Steps(c) /\ Returns /\ Returned.op \in WriteOps /\ Returned.err # Nil
       /\ Len(calls'[c].trips) = 1)
      => nodes' = nodes

\* the same when the service answered the round trip; a round trip that
\* failed in transport left the store as it was or was served: the key, which
\* was there, holds the value of the update or is gone by the delete
FirstTripErrorKeepsStoreUnlessServed(c) ==
    (Steps(c) /\ Returns /\ Returned.op \in WriteOps /\ Returned.err # Nil
       /\ Len(calls'[c].trips) = 1)
      => \/ nodes' = nodes
         \/ /\ Failed
            /\ Target(c) \in DOMAIN nodes
            /\ nodes' = IF Returned.op \in UpdateOps
                        THEN [nodes EXCEPT ![Target(c)] = DataOf(Returned)]
                        ELSE Without(nodes, Target(c))

\* C19 as claimed: store operations touch only their own key: an
\* UpdateSrvKeyspace or DeleteSrvKeyspace on (cell, keyspace) leaves the
\* stored value of every other keyspace key and of every cell's
\* schema-routing key unchanged (an update may additionally create missing
\* parent namespaces, nothing else), the read operations never change the
\* store, and an update or delete that returns an error from its first round
\* trip leaves the store unchanged.
C19_OwnKeyOnly ==
    [][\A c \in Clients :
         OwnKeyOnly(c) /\ ReadsKeepStore(c) /\ FirstTripErrorKeepsStore(c)]_vars

\* C19, amended: as claimed, but an update or delete that returns an error
\* from its first round trip leaves the store unchanged only when the
\* service answered with that error; when the round trip failed in transport
\* the store is unchanged or holds the effect of that round trip on the
\* call's own key.
C19_OwnKeyOnlyUnlessServed ==
    [][\A c \in Clients :
         /\ OwnKeyOnly(c)
         /\ ReadsKeepStore(c)
         /\ FirstTripErrorKeepsStoreUnlessServed(c)]_vars

\* keyspace "a" of cell "test" was created with another value than the one
\* cell "other" holds for "a"; its delete returned the transport failure
\* and the key is gone; the records of cell "other" are as they were
C19_Witness ==
    /\ Len(hist) = 2
    /\ hist[1].op = "UpdateSrvKeyspace" /\ hist[1].err = Nil
    /\ hist[1].cell = "test" /\ hist[1].keyspace = "a"
    /\ DataOf(hist[1]) # OtherCell[KeyspacePath("other", "a")]
    /\ hist[2].op = "DeleteSrvKeyspace" /\ hist[2].err = ZkErrConnectionClosed
    /\ hist[2].cell = "test" /\ hist[2].keyspace = "a"
    /\ KeyspacePath("test", "a") \notin DOMAIN nodes
    /\ \A p \in DOMAIN OtherCell : p \in DOMAIN nodes /\ nodes[p] = OtherCell[p]

(***************************************************************************)
(* C20.                                                                    *)
(***************************************************************************)
\* what a record of the diff becomes when the sides are exchanged: an extra
\* record stays as it is, a content mismatch names the labels and carries
\* the renderings the other way round
Exchanged(msg) ==
    LET kind == Kinds[KindRank(msg)]
        pk == KeyOf(msg)
    IN IF msg \in ExtraRecords(kind, pk) THEN msg
       ELSE LET v == CHOOSE v \in AllVals(kind) \X AllVals(kind) :
                       msg = DisagreeError(LeftName, RightName, kind, pk, v[1], v[2])
            IN DisagreeError(RightName, LeftName, kind, pk, v[2], v[1])

\* the records of the diff of one kind, and of the same diff with the sides
\* and their labels exchanged
DiffOfKind(kind) ==
    diffPermissions(kind, LeftName, ListOf(left, kind), RightName, ListOf(right, kind), <<>>)
DiffOfKindExchanged(kind) ==
    diffPermissions(kind, RightName, ListOf(right, kind), LeftName, ListOf(left, kind), <<>>)

\* the exchanged diff has the exchanged records, one for one in the same order
SymmetricRecords(rec, exchanged) ==
    /\ Len(exchanged) = Len(rec)
    /\ \A i \in DOMAIN rec : exchanged[i] = Exchanged(rec[i])

\* C20: the diff is symmetric in its two sides: for two lists each in
\* ascending primary-key order, diffPermissions with left and right
\* exchanged (labels exchanged with them) records mismatches for the same
\* primary keys in the same order, every "extra" record naming the same side
\* label as before and every content-mismatch record carrying the two
\* renderings exchanged; so does DiffPermissions over the three kinds.
C20_Symmetric ==
    (dpc = "diffed" /\ \A k \in 1..3 : BothAscending(Kinds[k]))
      => /\ \A k \in 1..3 :
              SymmetricRecords(DiffOfKind(Kinds[k]), DiffOfKindExchanged(Kinds[k]))
         /\ SymmetricRecords(er, DiffPermissions(RightName, right, LeftName, left, <<>>))

\* ascending lists whose diff has an extra record of one side and a content
\* mismatch, so that the exchanged diff is not the diff itself
C20_Witness ==
    /\ dpc = "diffed"
    /\ \A k \in 1..3 : BothAscending(Kinds[k])
    /\ \E i, j \in DOMAIN er :
         /\ er[i] \in UNION { ExtraRecords(Kinds[KindRank(er[i])], pk) :
                                pk \in AllKeys(Kinds[KindRank(er[i])]) }
         /\ er[j] \notin UNION { ExtraRecords(Kinds[KindRank(er[j])], pk) :
                                   pk \in AllKeys(Kinds[KindRank(er[j])]) }
    /\ DiffPermissions(RightName, right, LeftName, left, <<>>) # er

====
